---- MODULE Spec2Model ----
(***************************************************************************)
(* Wave orchestration of the questionnaire analysis backend:               *)
(*   backend/workflows/questionnaire_workflow.py  (outer run, sections)    *)
(*   backend/workflows/section_workflow.py        (per-section wave loop)  *)
(*   backend/activities/section_analysis.py       (activities)             *)
(*   backend/services/section_analyzer.py         (segmenter)              *)
(*   backend/services/dynamic_question_resolver.py (resolver)              *)
(*   backend/services/prediction_context.py       (context compressor)     *)
(*   backend/services/rag_client.py               (retrieval query)        *)
(* Python strings are TLA+ strings, dicts are functions over a finite set  *)
(* of keys, Python lists are sequences.                                    *)
(***************************************************************************)
EXTENDS Integers, Sequences, FiniteSets, TLC

(***************************************************************************)
(* Bounds of the model                                                     *)
(***************************************************************************)
\* longest section list of a run that has more than one section
MaxSections == 2
\* how many ids outside the pending batches the collaborator's responses of
\* one section run may carry in all
MaxExtra == 1
\* how many ids of a pending batch one JSON-object response may leave out
MaxOmitted == 1

\* calls of start_new_section on the one PredictionContext
MaxStarts == 4
\* calls of add_section_predictions on it
MaxAdds == 3
\* calls of start_new_section that name a section finalized before
MaxReuse == 1
\* characters of the long answer a wave can carry
LongLen == 1600
\* longest questions array given to parse_sections
MaxItems == 4
\* largest question count given to calculate_optimal_top_k
MaxQuestions == 50
\* most entries of a prediction map given to process_wave
MaxWave == 3
\* most questions of a generated section given to the resolver's validation
MaxGraph == 3
\* most reveal edges of a generated section
MaxEdges == 3

(***************************************************************************)
(* Question graph (the objects of Questions.json)                          *)
(***************************************************************************)
\* an option that carries a 'next' list
Opt(label, next) == [label |-> label, hasNext |-> TRUE, next |-> next]

\* an option without a 'next' key
OptPlain(label) == [label |-> label, hasNext |-> FALSE, next |-> <<>>]

\* a question of type input: no 'options' key, 'next' key present iff hasNext
InputQ(id, hasNext, next) ==
    [id |-> id, type |-> "input", hasNext |-> hasNext, next |-> next,
     hasOptions |-> FALSE, options |-> <<>>]

\* a question of type single or multi: 'options' key, no question-level 'next'
ChoiceQ(id, type, options) ==
    [id |-> id, type |-> type, hasNext |-> FALSE, next |-> <<>>,
     hasOptions |-> TRUE, options |-> options]

\* 3 roots, the single-choice root R1 reveals X1 and X2 under option "Yes"
SecE2E ==
    << ChoiceQ("R1", "single", << Opt("Yes", <<"X1", "X2">>), OptPlain("No") >>),
       InputQ("R2", FALSE, <<>>),
       ChoiceQ("R3", "multi", << OptPlain("a"), OptPlain("b") >>),
       InputQ("X1", FALSE, <<>>),
       InputQ("X2", FALSE, <<>>) >>

\* root C0 leads into the cycle CA -> CB -> CA
SecCycle ==
    << InputQ("C0", TRUE, <<"CA">>),
       InputQ("CA", TRUE, <<"CB">>),
       InputQ("CB", TRUE, <<"CA">>) >>

\* acyclic: D0 reveals DX and DQ, DX reveals DQ again
SecDiamond ==
    << InputQ("D0", TRUE, <<"DX", "DQ">>),
       InputQ("DX", TRUE, <<"DQ">>),
       InputQ("DQ", FALSE, <<>>) >>

\* O1 has an edge to an id that is not in the section; O2 has no options
SecOrphan ==
    << ChoiceQ("O1", "single", << Opt("Yes", <<"GHOST">>), OptPlain("No") >>),
       ChoiceQ("O2", "multi", <<>>) >>

\* every question is a reveal target: the section has no root
SecNoRoot ==
    << InputQ("NA", TRUE, <<"NB">>),
       InputQ("NB", TRUE, <<"NA">>) >>

\* a section header that no question follows
SecEmpty == <<>>

\* small sections used in runs of several sections
SecPlain == << InputQ("P1", FALSE, <<>>) >>

SecBranch ==
    << ChoiceQ("B1", "single", << Opt("Yes", <<"B2">>), OptPlain("No") >>),
       InputQ("B2", FALSE, <<>>) >>

\* a section for the resolver on its own. S1: single choice, the label "Yes"
\* on two options and "No" first on an option without a list; M1: multi
\* choice with overlapping lists; I1: a direct list with a repeated id;
\* B1: a single-choice question that carries a direct list too; N1: options
\* on a question of type input
SecResolver ==
    << ChoiceQ("S1", "single",
               << Opt("Yes", <<"T1", "T2", "T1">>), OptPlain("No"),
                  Opt("Yes", <<"T3">>), Opt("No", <<"T3">>) >>),
       ChoiceQ("M1", "multi",
               << Opt("a", <<"T1", "T2">>), Opt("b", <<"T2", "T3">>),
                  OptPlain("c") >>),
       InputQ("I1", TRUE, <<"T1", "T1", "T2">>),
       [id |-> "B1", type |-> "single", hasNext |-> TRUE, next |-> <<"T1">>,
        hasOptions |-> TRUE,
        options |-> << Opt("Yes", <<"T2">>), OptPlain("No") >>],
       [id |-> "N1", type |-> "input", hasNext |-> FALSE, next |-> <<>>,
        hasOptions |-> TRUE, options |-> << Opt("Yes", <<"T1">>) >>],
       InputQ("T1", FALSE, <<>>),
       InputQ("T2", FALSE, <<>>),
       InputQ("T3", FALSE, <<>>) >>

\* self.sections of the analyzer: section id -> title and questions
SectionIds == {"SEC_E2E", "SEC_CYC", "SEC_DIA", "SEC_ORPH", "SEC_NOROOT",
               "SEC_P", "SEC_B", "SEC_EMPTY"}

SectionTitle(sid) ==
    CASE sid = "SEC_E2E" -> "E2E"
      [] sid = "SEC_CYC" -> "CYCLE"
      [] sid = "SEC_DIA" -> "DIAMOND"
      [] sid = "SEC_ORPH" -> "ORPHAN"
      [] sid = "SEC_NOROOT" -> "NOROOT"
      [] sid = "SEC_P" -> "PLAIN"
      [] sid = "SEC_B" -> "BRANCH"
      [] sid = "SEC_EMPTY" -> "EMPTY"
      [] OTHER -> ""

SectionQuestions(sid) ==
    CASE sid = "SEC_E2E" -> SecE2E
      [] sid = "SEC_CYC" -> SecCycle
      [] sid = "SEC_DIA" -> SecDiamond
      [] sid = "SEC_ORPH" -> SecOrphan
      [] sid = "SEC_NOROOT" -> SecNoRoot
      [] sid = "SEC_P" -> SecPlain
      [] sid = "SEC_B" -> SecBranch
      [] sid = "SEC_EMPTY" -> SecEmpty
      [] OTHER -> <<>>

\* a section id the caller may pass that Questions.json does not hold
MissingSection == "SEC_MISSING"

(***************************************************************************)
(* Sequence helpers                                                        *)
(***************************************************************************)
Range(s) == { s[k] : k \in 1..Len(s) }

Ids(questions) == { questions[k].id : k \in 1..Len(questions) }

RECURSIVE FilterById(_, _)
\* [q for q in questions if q['id'] in ids], as the list of ids, in list order
FilterById(questions, ids) ==
    IF questions = <<>> THEN <<>>
    ELSE LET rest == FilterById(Tail(questions), ids)
         IN  IF Head(questions).id \in ids THEN <<Head(questions).id>> \o rest
             ELSE rest

RECURSIVE Dedup(_)
\* list(dict.fromkeys(s)): first occurrences, in order
Dedup(s) ==
    IF s = <<>> THEN <<>>
    ELSE LET front == Dedup(SubSeq(s, 1, Len(s) - 1))
         IN  IF s[Len(s)] \in Range(front) THEN front
             ELSE Append(front, s[Len(s)])

\* the question with this id in a section (questions_by_id[qid])
QuestionById(questions, qid) ==
    CHOOSE q \in Range(questions) : q.id = qid

(***************************************************************************)
(* Python dicts: keys in insertion order (k) and the mapping (v)           *)
(***************************************************************************)
DEmpty == [k |-> <<>>, v |-> [x \in {} |-> x]]

DKeys(d) == DOMAIN d.v

DLen(d) == Len(d.k)

\* d[key] = val: a new key goes last, an old key keeps its place
DPut(d, key, val) ==
    [k |-> IF key \in DOMAIN d.v THEN d.k ELSE Append(d.k, key),
     v |-> [x \in (DOMAIN d.v) \cup {key} |-> IF x = key THEN val ELSE d.v[x]]]

RECURSIVE DUpdateFrom(_, _, _)
DUpdateFrom(d, e, n) ==
    IF n > Len(e.k) THEN d
    ELSE DUpdateFrom(DPut(d, e.k[n], e.v[e.k[n]]), e, n + 1)

\* d.update(e)
DUpdate(d, e) == DUpdateFrom(d, e, 1)

(***************************************************************************)
(* Answers: the shapes a JSON answer can take                              *)
(***************************************************************************)
StrAns(s) == [tag |-> "str", s |-> s, l |-> <<>>]

ListAns(l) == [tag |-> "list", s |-> "", l |-> l]

\* a dict with a 'value' key holding the label s
DictAns(s) == [tag |-> "dict", s |-> s, l |-> <<>>]

\* anything else (a number, null, a dict without 'value')
OtherAns == [tag |-> "other", s |-> "", l |-> <<>>]

(***************************************************************************)
(* Section Segmenter: services/section_analyzer.py                         *)
(***************************************************************************)
RECURSIVE OptionTargets(_)
\* the ids of every option's 'next' list
OptionTargets(options) ==
    IF options = <<>> THEN {}
    ELSE (IF Head(options).hasNext THEN Range(Head(options).next) ELSE {})
         \cup OptionTargets(Tail(options))

\* referenced ids that leave out the lists of the options
DirectReferencedIds(questions) ==
    UNION { (IF q.hasNext THEN Range(q.next) ELSE {}) : q \in Range(questions) }

\* referenced_ids of find_root_questions
ReferencedIds(questions) ==
    UNION { (IF q.hasNext THEN Range(q.next) ELSE {})
            \cup (IF q.hasOptions THEN OptionTargets(q.options) ELSE {})
            : q \in Range(questions) }

\* the ids of the root questions, in section order
find_root_questions(questions) ==
    FilterById(questions, Ids(questions) \ ReferencedIds(questions))

Max2(a, b) == IF a >= b THEN a ELSE b

Min2(a, b) == IF a <= b THEN a ELSE b

RECURSIVE MaxOptionNext(_)
MaxOptionNext(options) ==
    IF options = <<>> THEN 0
    ELSE Max2(IF Head(options).hasNext THEN Len(Head(options).next) ELSE 0,
              MaxOptionNext(Tail(options)))

HasNextAnywhere(q) ==
    q.hasNext \/ (q.hasOptions /\ \E k \in 1..Len(q.options) : q.options[k].hasNext)

RECURSIVE MaxDepthOf(_)
\* max_depth of detect_section_complexity: the longest 'next' list seen
MaxDepthOf(questions) ==
    IF questions = <<>> THEN 0
    ELSE LET q == Head(questions)
         IN  Max2(Max2(IF q.hasNext THEN Len(q.next) ELSE 0,
                       IF q.hasOptions THEN MaxOptionNext(q.options) ELSE 0),
                  MaxDepthOf(Tail(questions)))

detect_section_complexity(questions) ==
    LET num_questions == Len(questions)
        conditional_count ==
            Cardinality({k \in 1..Len(questions) : HasNextAnywhere(questions[k])})
        max_depth == MaxDepthOf(questions)
    IN  IF num_questions <= 2 THEN "low"
        ELSE IF num_questions <= 6
             THEN (IF conditional_count > 3 \/ max_depth > 3 THEN "high" ELSE "medium")
             ELSE (IF conditional_count > 5 \/ max_depth > 4 THEN "high" ELSE "medium")

\* the multiplier in tenths: 0.8, 1.0, 1.5 (1.0 for an unknown complexity)
MultiplierTenths(complexity) ==
    CASE complexity = "low" -> 8
      [] complexity = "medium" -> 10
      [] complexity = "high" -> 15
      [] OTHER -> 10

\* the budget without its bounds
UnboundedTopK(num_questions, complexity) ==
    (3 * num_questions * MultiplierTenths(complexity)) \div 10

\* int(base_k * num_questions * multiplier) truncates; then max(5, min(20, .))
calculate_optimal_top_k(num_questions, complexity) ==
    LET optimal == (3 * num_questions * MultiplierTenths(complexity)) \div 10
    IN  Max2(5, Min2(20, optimal))

\* get_section_info(section_id) as parse_section_structure reads it
SectionInfo(sid) ==
    LET questions == SectionQuestions(sid)
        complexity == detect_section_complexity(questions)
    IN  [title |-> SectionTitle(sid),
         all_questions |-> questions,
         root_questions |-> find_root_questions(questions),
         complexity |-> complexity,
         optimal_top_k |-> calculate_optimal_top_k(Len(questions), complexity)]

\* an item of type section of the questions array
HeaderQ(id, title) == [id |-> id, type |-> "section", title |-> title]

\* current_section = None
NoCurrent == [open |-> FALSE, id |-> "", title |-> "", questions |-> <<>>]

\* _finalize_section of the analyzer: sections[section_id] = section_data
analyzer_finalize_section(secs, cur) ==
    LET complexity == detect_section_complexity(cur.questions)
    IN  DPut(secs, cur.id,
             [id |-> cur.id,
              title |-> cur.title,
              questions |-> cur.questions,
              root_questions |-> find_root_questions(cur.questions),
              complexity |-> complexity,
              optimal_top_k |-> calculate_optimal_top_k(Len(cur.questions),
                                                        complexity)])

RECURSIVE ParseSectionsFrom(_, _, _)
\* the loop of parse_sections over the items left, and the code after it
ParseSectionsFrom(items, secs, cur) ==
    IF items = <<>>
    THEN (IF cur.open THEN analyzer_finalize_section(secs, cur) ELSE secs)
    ELSE LET item == Head(items)
         IN  IF item.type = "section"
             THEN ParseSectionsFrom(
                      Tail(items),
                      IF cur.open THEN analyzer_finalize_section(secs, cur) ELSE secs,
                      [open |-> TRUE, id |-> item.id, title |-> item.title,
                       questions |-> <<>>])
             ELSE IF cur.open
             THEN ParseSectionsFrom(Tail(items), secs,
                                    [cur EXCEPT !.questions = Append(@, item)])
             ELSE ParseSectionsFrom(Tail(items), secs, cur)

\* a parse that forgets the section still open at the end of the array
ParseForgetsLastSection(questions_array) ==
    LET secs == ParseSectionsFrom(questions_array, DEmpty, NoCurrent)
        kept == SubSeq(secs.k, 1, Len(secs.k) - 1)
    IN  [k |-> kept, v |-> [x \in Range(kept) |-> secs.v[x]]]

\* parse_sections: the dict section id -> section data; it has no raise of
\* its own (a missing file or bad JSON raises in load_questions_json)
parse_sections(questions_array) ==
    ParseSectionsFrom(questions_array, DEmpty, NoCurrent)

(***************************************************************************)
(* Dependency Resolver: services/dynamic_question_resolver.py              *)
(***************************************************************************)
RECURSIVE FirstMatchWithNext(_, _)
\* a scan that goes on past a matching option that has no list
FirstMatchWithNext(options, label) ==
    IF options = <<>> THEN <<>>
    ELSE IF Head(options).label = label /\ Head(options).hasNext
         THEN Head(options).next
         ELSE FirstMatchWithNext(Tail(options), label)

RECURSIVE FirstMatchNext(_, _)
\* the loop of _resolve_single_choice: the first option whose label matches
FirstMatchNext(options, label) ==
    IF options = <<>> THEN <<>>
    ELSE IF Head(options).label = label
         THEN (IF Head(options).hasNext THEN Head(options).next ELSE <<>>)
         ELSE FirstMatchNext(Tail(options), label)

\* a single-choice answer that reveals nothing
SingleChoiceRevealsNothing(question, answer) == <<>>

resolve_single_choice(question, answer) ==
    IF answer.tag = "str" THEN FirstMatchNext(question.options, answer.s)
    ELSE IF answer.tag = "dict" THEN FirstMatchNext(question.options, answer.s)
    ELSE <<>>

RECURSIVE AllMatchNext(_, _)
\* the loop of _resolve_multi_choice: every option whose label is selected
AllMatchNext(options, selected) ==
    IF options = <<>> THEN <<>>
    ELSE (IF Head(options).label \in selected /\ Head(options).hasNext
          THEN Head(options).next ELSE <<>>)
         \o AllMatchNext(Tail(options), selected)

\* a multi-choice resolution that unwraps a {value: label} dict as a label
MultiUnwrapsDict(question, answer) ==
    IF answer.tag \in {"str", "dict"} THEN AllMatchNext(question.options, {answer.s})
    ELSE IF answer.tag = "list" THEN AllMatchNext(question.options, Range(answer.l))
    ELSE <<>>

\* a multi-choice resolution that stops at the first matching option
MultiFirstMatchOnly(question, answer) ==
    IF answer.tag = "str" THEN FirstMatchNext(question.options, answer.s)
    ELSE IF answer.tag = "list" /\ answer.l # <<>>
    THEN FirstMatchNext(question.options, answer.l[1])
    ELSE <<>>

resolve_multi_choice(question, answer) ==
    IF answer.tag = "str" THEN AllMatchNext(question.options, {answer.s})
    ELSE IF answer.tag = "list" THEN AllMatchNext(question.options, Range(answer.l))
    ELSE <<>>

resolve_option_based_next(question, answer) ==
    IF question.type = "single" THEN resolve_single_choice(question, answer)
    ELSE IF question.type = "multi" THEN resolve_multi_choice(question, answer)
    ELSE <<>>

\* DynamicQuestionResolver.resolve_next_questions
resolve_next(questions, question_id, answer) ==
    IF question_id \notin Ids(questions) THEN <<>>
    ELSE LET question == QuestionById(questions, question_id)
         IN  Dedup((IF question.hasNext THEN question.next ELSE <<>>)
                   \o (IF question.hasOptions
                       THEN resolve_option_based_next(question, answer)
                       ELSE <<>>))

RECURSIVE ProcessWaveFrom(_, _, _, _)
\* the loop of process_wave from entry n on: next_wave_ids.update(revealed)
ProcessWaveFrom(questions, wave_predictions, n, next_wave_ids) ==
    IF n > Len(wave_predictions.k) THEN next_wave_ids
    ELSE LET question_id == wave_predictions.k[n]
             revealed == resolve_next(questions, question_id,
                                      wave_predictions.v[question_id])
         IN  ProcessWaveFrom(questions, wave_predictions, n + 1,
                             next_wave_ids \cup Range(revealed))

\* a process_wave that keeps what the last entry reveals only
ProcessWaveKeepsLast(questions, wave_predictions) ==
    IF wave_predictions.k = <<>> THEN {}
    ELSE LET question_id == wave_predictions.k[Len(wave_predictions.k)]
         IN  Range(resolve_next(questions, question_id,
                                wave_predictions.v[question_id]))

\* DynamicQuestionResolver.process_wave: the set of ids of the next wave
process_wave(questions, wave_predictions) ==
    ProcessWaveFrom(questions, wave_predictions, 1, {})

RECURSIVE AllOptionNext(_)
\* the 'next' lists of every option, one after the other
AllOptionNext(options) ==
    IF options = <<>> THEN <<>>
    ELSE (IF Head(options).hasNext THEN Head(options).next ELSE <<>>)
         \o AllOptionNext(Tail(options))

RECURSIVE BuildTreeFrom(_, _)
BuildTreeFrom(questions, dependency_tree) ==
    IF questions = <<>> THEN dependency_tree
    ELSE LET question == Head(questions)
             next_ids == (IF question.hasNext THEN question.next ELSE <<>>)
                         \o (IF question.hasOptions
                             THEN AllOptionNext(question.options) ELSE <<>>)
         IN  BuildTreeFrom(Tail(questions),
                           DPut(dependency_tree, question.id, Dedup(next_ids)))

\* DynamicQuestionResolver.build_dependency_tree: question id -> the ids it
\* can reveal, as a dict in section order
build_dependency_tree(questions) == BuildTreeFrom(questions, DEmpty)

\* dependency_tree.get(qid, [])
TreeNext(dependency_tree, qid) ==
    IF qid \in DKeys(dependency_tree) THEN dependency_tree.v[qid] ELSE <<>>

RECURSIVE MaxOver(_)
MaxOver(S) ==
    IF S = {} THEN 0
    ELSE LET x == CHOOSE y \in S : TRUE IN Max2(x, MaxOver(S \ {x}))

RECURSIVE dfs(_, _, _, _)
\* dfs of get_max_wave_depth: the largest depth the call records in max_depth
\* (0 when it returns at once); visited holds the ids of the calls in
\* progress, since every call removes its id before it returns
dfs(dependency_tree, qid, depth, visited) ==
    IF qid \in visited THEN 0
    ELSE Max2(depth,
              MaxOver({ dfs(dependency_tree, next_qid, depth + 1,
                            visited \cup {qid})
                        : next_qid \in Range(TreeNext(dependency_tree, qid)) }))

\* the depth of a search that counts the edges of a path, not its ids
DepthInEdges(questions) ==
    LET dependency_tree == build_dependency_tree(questions)
    IN  MaxOver({ dfs(dependency_tree, qid, 0, {})
                  : qid \in DKeys(dependency_tree) })

\* DynamicQuestionResolver.get_max_wave_depth
get_max_wave_depth(questions) ==
    LET dependency_tree == build_dependency_tree(questions)
    IN  MaxOver({ dfs(dependency_tree, qid, 1, {})
                  : qid \in DKeys(dependency_tree) })

RECURSIVE has_cycle(_, _, _)
RECURSIVE HasCycleLoop(_, _, _, _)
\* has_cycle of validate_section_structure on the sets visited and rec_stack
\* it shares with its caller: the sets after the call and what it returned
has_cycle(dependency_tree, qid, st) ==
    HasCycleLoop(dependency_tree, qid, TreeNext(dependency_tree, qid),
                 [visited |-> st.visited \cup {qid},
                  rec_stack |-> st.rec_stack \cup {qid}, found |-> FALSE])

\* the for loop of has_cycle over the ids still to visit; a return True
\* leaves rec_stack as it is
HasCycleLoop(dependency_tree, qid, next_ids, st) ==
    IF next_ids = <<>>
    THEN [st EXCEPT !.rec_stack = @ \ {qid}, !.found = FALSE]
    ELSE LET next_qid == Head(next_ids)
         IN  IF next_qid \notin st.visited
             THEN LET r == has_cycle(dependency_tree, next_qid, st)
                  IN  IF r.found THEN r
                      ELSE HasCycleLoop(dependency_tree, qid, Tail(next_ids), r)
             ELSE IF next_qid \in st.rec_stack
                  THEN [st EXCEPT !.found = TRUE]
                  ELSE HasCycleLoop(dependency_tree, qid, Tail(next_ids), st)

RECURSIVE CycleErrorsFrom(_, _, _, _)
\* the loop over the keys of the tree: the ids named in the errors
CycleErrorsFrom(dependency_tree, keys, st, errors) ==
    IF keys = <<>> THEN errors
    ELSE LET qid == Head(keys)
         IN  IF qid \in st.visited
             THEN CycleErrorsFrom(dependency_tree, Tail(keys), st, errors)
             ELSE LET r == has_cycle(dependency_tree, qid, st)
                  IN  CycleErrorsFrom(dependency_tree, Tail(keys), r,
                                      IF r.found THEN Append(errors, qid)
                                      ELSE errors)

\* errors of validate_section_structure, each as the id its message names
CycleErrors(questions) ==
    LET dependency_tree == build_dependency_tree(questions)
    IN  CycleErrorsFrom(dependency_tree, dependency_tree.k,
                        [visited |-> {}, rec_stack |-> {}, found |-> FALSE],
                        <<>>)

RECURSIVE OrphanPairs(_, _, _)
OrphanPairs(qid, next_ids, ids) ==
    IF next_ids = <<>> THEN <<>>
    ELSE (IF Head(next_ids) \notin ids THEN << <<qid, Head(next_ids)>> >>
          ELSE <<>>)
         \o OrphanPairs(qid, Tail(next_ids), ids)

RECURSIVE OrphanWarningsFrom(_, _, _)
OrphanWarningsFrom(questions, dependency_tree, n) ==
    IF n > Len(questions) THEN <<>>
    ELSE OrphanPairs(questions[n].id,
                     TreeNext(dependency_tree, questions[n].id),
                     Ids(questions))
         \o OrphanWarningsFrom(questions, dependency_tree, n + 1)

\* warnings of validate_section_structure, each as the pair of ids its
\* message names
OrphanWarnings(questions) ==
    OrphanWarningsFrom(questions, build_dependency_tree(questions), 1)

\* stats of validate_section_structure
ValidationStats(questions) ==
    [total_questions |-> Len(questions),
     questions_with_conditionals |->
        Cardinality({ n \in 1..Len(questions) : HasNextAnywhere(questions[n]) }),
     max_wave_depth |-> get_max_wave_depth(questions)]

\* a validation that counts a warning as an error
ValidateWarningsInvalidate(questions) ==
    [valid |-> Len(CycleErrors(questions)) = 0
               /\ Len(OrphanWarnings(questions)) = 0,
     warnings |-> OrphanWarnings(questions),
     errors |-> CycleErrors(questions),
     stats |-> ValidationStats(questions)]

\* DynamicQuestionResolver.validate_section_structure
validate_section_structure(questions) ==
    [valid |-> Len(CycleErrors(questions)) = 0,
     warnings |-> OrphanWarnings(questions),
     errors |-> CycleErrors(questions),
     stats |-> ValidationStats(questions)]

(***************************************************************************)
(* Activities: activities/section_analysis.py                              *)
(***************************************************************************)
RECURSIVE JoinWith(_, _)
\* sep.join(parts)
JoinWith(parts, sep) ==
    IF parts = <<>> THEN ""
    ELSE IF Len(parts) = 1 THEN parts[1]
    ELSE parts[1] \o sep \o JoinWith(Tail(parts), sep)

\* str(answer), a list joined with ", "
AnswerStr(answer) ==
    CASE answer.tag = "str" -> answer.s
      [] answer.tag = "list" -> JoinWith(answer.l, ", ")
      [] answer.tag = "dict" -> "{'value': '" \o answer.s \o "'}"
      [] OTHER -> "None"

\* the fallback answer of a question: the first option's label or ''
FallbackAnswer(question) ==
    IF question.hasOptions /\ question.options # <<>>
    THEN StrAns(question.options[1].label)
    ELSE StrAns("")

RECURSIVE FillMissing(_, _, _, _)
\* the loop "for question in questions: if qid not in predictions: ..."
FillMissing(result, pending, all_questions, why) ==
    IF pending = <<>> THEN result
    ELSE LET qid == Head(pending)
             filled ==
                 IF qid \in DKeys(result.predictions) THEN result
                 ELSE [result EXCEPT
                         !.predictions =
                             DPut(@, qid, FallbackAnswer(QuestionById(all_questions, qid))),
                         !.reasoning = DPut(@, qid, why),
                         !.confidence = DPut(@, qid, "low")]
         IN  FillMissing(filled, Tail(pending), all_questions, why)

EmptyResult(error) ==
    [predictions |-> DEmpty, reasoning |-> DEmpty, confidence |-> DEmpty,
     error |-> error]

\* _parse_batch_prediction_response for a response text that json.loads
\* accepts as an object (kind "object") or rejects (kind "not_json")
parse_batch_prediction_response(response, pending, all_questions) ==
    IF response.kind = "object"
    THEN FillMissing([predictions |-> response.predictions,
                      reasoning |-> response.reasoning,
                      confidence |-> response.confidence,
                      error |-> FALSE],
                     pending, all_questions,
                     "Default answer - LLM did not provide prediction")
    ELSE FillMissing(EmptyResult(TRUE), pending, all_questions,
                     "Error parsing LLM response - using default")

\* predict_question_batch_with_rag: an exception of the model call ("raise"),
\* or of the parser on JSON that is not an object ("non_object": result.get
\* raises AttributeError, which is no JSONDecodeError), ends in the except
\* branch that returns empty predictions
predict_question_batch_with_rag(response, pending, all_questions) ==
    IF response.kind \in {"raise", "non_object"} THEN EmptyResult(TRUE)
    ELSE parse_batch_prediction_response(response, pending, all_questions)

\* the activity resolve_next_questions
resolve_next_questions(wave_predictions, all_questions) ==
    process_wave(all_questions, wave_predictions)

\* reason[:150] + "..." if len(reason) > 150 else reason
CondenseReasoning(reason) ==
    IF Len(reason) > 150 THEN SubSeq(reason, 1, 150) \o "..." ELSE reason

RECURSIVE ContextParts(_, _, _)
\* the lines generate_section_context adds per prediction (no question text
\* is passed by the workflow, so the "- id: answer" format is used)
ContextParts(keys, predictions, reasoning) ==
    IF keys = <<>> THEN <<>>
    ELSE LET qid == Head(keys)
             reason == IF qid \in DKeys(reasoning) THEN reasoning.v[qid] ELSE ""
         IN  << "- " \o qid \o ": " \o AnswerStr(predictions.v[qid]) >>
             \o (IF reason # ""
                 THEN << "  (Reasoning: " \o CondenseReasoning(reason) \o ")" >>
                 ELSE <<>>)
             \o ContextParts(Tail(keys), predictions, reasoning)

\* previous_context[-2000:] if len(previous_context) > 2000
LimitPrevious(context) ==
    IF Len(context) > 2000
    THEN SubSeq(context, Len(context) - 1999, Len(context))
    ELSE context

generate_section_context(title, predictions, reasoning, prev_context) ==
    LET current_section_context ==
            JoinWith(<< "[Section: " \o title \o "]" >>
                     \o ContextParts(predictions.k, predictions, reasoning), "\n")
    IN  IF prev_context # ""
        THEN LimitPrevious(prev_context) \o "\n\n" \o current_section_context
        ELSE current_section_context

(***************************************************************************)
(* Context Compressor: services/prediction_context.py                      *)
(***************************************************************************)
\* current_section_id = None
NoSection == "<None>"

\* PredictionContext.__init__; clock is the value datetime.now() gives next
NewContext ==
    [predictions |-> DEmpty,
     sections |-> DEmpty,
     current_section_id |-> NoSection,
     current_section_predictions |-> DEmpty,
     current_section_reasoning |-> DEmpty,
     clock |-> 1]

\* dict.get(key, default)
DGet(d, key, default) == IF key \in DKeys(d) THEN d.v[key] ELSE default

\* s[:n] of a list
Take(s, n) == SubSeq(s, 1, Min2(n, Len(s)))

\* s[:-n] of a list
DropLast(s, n) == SubSeq(s, 1, Max2(0, Len(s) - n))

\* s[-n:] of a list
TakeLast(s, n) == SubSeq(s, Max2(1, Len(s) - n + 1), Len(s))

start_new_section(ctx, section_id) ==
    [ctx EXCEPT !.current_section_id = section_id,
                !.current_section_predictions = DEmpty,
                !.current_section_reasoning = DEmpty]

RECURSIVE StampPredictions(_, _, _, _)
\* the loop "for qid, answer in predictions.items(): self.predictions[qid] = ..."
StampPredictions(ctx, keys, predictions, reasoning) ==
    IF keys = <<>> THEN ctx
    ELSE LET qid == Head(keys)
             record == [question_id |-> qid,
                        predicted_answer |-> predictions.v[qid],
                        reasoning |-> DGet(reasoning, qid, ""),
                        section_id |-> ctx.current_section_id,
                        timestamp |-> ctx.clock]
         IN  StampPredictions(
                 [ctx EXCEPT !.predictions = DPut(@, qid, record),
                             !.clock = @ + 1],
                 Tail(keys), predictions, reasoning)

\* an add_section_predictions that stores the wave as a finalized section at once
AddAndStoreSection(ctx, predictions, reasoning) ==
    IF ctx.current_section_id = NoSection THEN ctx
    ELSE LET added == StampPredictions(
                          [ctx EXCEPT
                             !.current_section_predictions = DUpdate(@, predictions),
                             !.current_section_reasoning = DUpdate(@, reasoning)],
                          predictions.k, predictions, reasoning)
         IN  [added EXCEPT
                !.sections =
                    DPut(@, added.current_section_id,
                         [section_id |-> added.current_section_id,
                          predictions |-> added.current_section_predictions,
                          reasoning |-> added.current_section_reasoning,
                          summary |-> "",
                          timestamp |-> added.clock])]

add_section_predictions(ctx, predictions, reasoning) ==
    IF ctx.current_section_id = NoSection THEN ctx
    ELSE StampPredictions(
             [ctx EXCEPT
                !.current_section_predictions = DUpdate(@, predictions),
                !.current_section_reasoning = DUpdate(@, reasoning)],
             predictions.k, predictions, reasoning)

\* the entry of key_decisions for one answer
KeyDecision(answer) ==
    IF answer.tag = "list"
    THEN (IF Len(answer.l) <= 3 THEN JoinWith(answer.l, ", ")
          ELSE ToString(Len(answer.l)) \o " items selected")
    ELSE AnswerStr(answer)

summarize_section(section_id, predictions, reasoning) ==
    LET key_decisions == [n \in 1..DLen(predictions) |->
                             KeyDecision(predictions.v[predictions.k[n]])]
        decision_str == JoinWith(Take(key_decisions, 3), "; ")
    IN  section_id \o ": " \o decision_str
        \o (IF Len(key_decisions) > 3
            THEN " (+ " \o ToString(Len(key_decisions) - 3) \o " more)"
            ELSE "")

RECURSIVE DetailParts(_, _, _)
\* the lines _format_section_detail adds per prediction
DetailParts(keys, predictions, reasoning) ==
    IF keys = <<>> THEN <<>>
    ELSE LET qid == Head(keys)
             reason == DGet(reasoning, qid, "")
         IN  << "- " \o qid \o ": " \o AnswerStr(predictions.v[qid]) >>
             \o (IF reason # "" /\ Len(reason) < 200
                 THEN << "  Reasoning: " \o reason >>
                 ELSE <<>>)
             \o DetailParts(Tail(keys), predictions, reasoning)

format_section_detail(section_data) ==
    JoinWith(<< "Section: " \o section_data.section_id >>
             \o DetailParts(section_data.predictions.k, section_data.predictions,
                            section_data.reasoning),
             "\n")

\* _compress_context, called with a non-empty self.sections
compress_context(ctx, context) ==
    IF DLen(ctx.sections) = 0 THEN context
    ELSE
    LET section_ids == ctx.sections.k
        last_section == ctx.sections.v[section_ids[Len(section_ids)]]
        older == DropLast(section_ids, 1)
        older_summaries == [n \in 1..Len(older) |->
                               "- " \o ctx.sections.v[older[n]].summary]
    IN  JoinWith((IF older # <<>>
                  THEN << "[PREVIOUS SECTIONS]", JoinWith(older_summaries, "\n") >>
                  ELSE <<>>)
                 \o << "\n[CURRENT SECTION - Detail]",
                       format_section_detail(last_section) >>,
                 "\n\n")

\* a rendering that keeps only the last section in full detail
TwoTierOneRecent(ctx) ==
    LET section_ids == ctx.sections.k
        recent_sections == TakeLast(section_ids, 1)
        older_sections == DropLast(section_ids, 1)
    IN  JoinWith(
            << "[RECENT SECTIONS - Full Detail]" >>
            \o [n \in 1..Len(recent_sections) |->
                   format_section_detail(ctx.sections.v[recent_sections[n]])]
            \o (IF older_sections # <<>>
                THEN << "\n[OLDER SECTIONS - Summarized]" >>
                     \o [n \in 1..Len(older_sections) |->
                            "- " \o ctx.sections.v[older_sections[n]].summary]
                ELSE <<>>),
            "\n\n")

\* the two-tier rendering, before the size test of _build_context_string
TwoTierContext(ctx) ==
    LET section_ids == ctx.sections.k
        recent_sections == TakeLast(section_ids, 2)
        older_sections == DropLast(section_ids, 2)
    IN  JoinWith(
            << "[RECENT SECTIONS - Full Detail]" >>
            \o [n \in 1..Len(recent_sections) |->
                   format_section_detail(ctx.sections.v[recent_sections[n]])]
            \o (IF older_sections # <<>>
                THEN << "\n[OLDER SECTIONS - Summarized]" >>
                     \o [n \in 1..Len(older_sections) |->
                            "- " \o ctx.sections.v[older_sections[n]].summary]
                ELSE <<>>),
            "\n\n")

build_context_string(ctx) ==
    IF DLen(ctx.sections) = 0 THEN ""
    ELSE LET full_context == TwoTierContext(ctx)
         IN  IF Len(full_context) > 3000
             THEN compress_context(ctx, full_context)
             ELSE full_context

\* finalize_section: the context it leaves and the string it returns
finalize_section(ctx) ==
    IF ctx.current_section_id = NoSection
    THEN [ctx |-> ctx, context_string |-> build_context_string(ctx)]
    ELSE LET stored ==
                 [ctx EXCEPT
                    !.sections =
                        DPut(@, ctx.current_section_id,
                             [section_id |-> ctx.current_section_id,
                              predictions |-> ctx.current_section_predictions,
                              reasoning |-> ctx.current_section_reasoning,
                              summary |-> summarize_section(
                                              ctx.current_section_id,
                                              ctx.current_section_predictions,
                                              ctx.current_section_reasoning),
                              timestamp |-> ctx.clock]),
                    !.clock = @ + 1]
         IN  [ctx |-> [stored EXCEPT !.current_section_id = NoSection,
                                     !.current_section_predictions = DEmpty,
                                     !.current_section_reasoning = DEmpty],
              context_string |-> build_context_string(stored)]

(***************************************************************************)
(* RAG client: services/rag_client.py                                      *)
(***************************************************************************)
\* _build_section_query: the part of the prior context put into the query
context_preview(previous_context) ==
    IF Len(previous_context) > 500
    THEN SubSeq(previous_context, 1, 500) \o "..."
    ELSE previous_context

(***************************************************************************)
(* State                                                                   *)
(***************************************************************************)
VARIABLES
    \* QuestionnaireAnalysisWorkflow
    sections,              \* the run's argument: the list of section ids
    qpc,                   \* where run() is: start, progress, child, save, done, failed
    idx,                   \* the for loop's position in sections (1-based)
    progress,              \* self._progress
    cancelled,             \* self._cancelled
    accumulated_context,   \* self._accumulated_context
    all_predictions,       \* self._all_predictions
    all_reasoning,         \* self._all_reasoning
    all_rag_metadata,      \* self._all_rag_metadata
    \* SectionAnalysisWorkflow (the child run in flight)
    spc,                   \* none, parse, retrieve, predict, resolve, finalize,
                           \* returned, failed
    section_id,            \* run() argument
    previous_context,      \* run() argument
    section_title,         \* self._section_title
    all_section_questions, \* self._all_section_questions
    root_questions,        \* local of run()
    optimal_top_k,         \* local of run()
    rag_chunks,            \* self._rag_chunks
    rag_metadata,          \* self._rag_metadata
    wave_state,            \* self._wave_state
    prediction_result,     \* what the last batch-prediction activity returned
    section_result,        \* what the child run returned
    \* collaborators
    sink_calls,            \* the calls the result sink received
    progress_sink,         \* the last progress report the progress sink stored
    \* history
    wave_log,              \* per wave of this section: the batch sent to prediction
    retrieval_log,         \* the retrieval calls of this section: the budget given
    last_response,         \* the kind of the collaborator's last response
    extras_used,           \* ids outside the batches the responses carried so far
    child_log,             \* per child run started: section, argument, outcome
    cancel_mark,           \* what had happened when the cancel signal first came
    entered,               \* loop iterations that passed the cancellation check
    run_result,            \* what run() returned
    \* PredictionContext (one context object and its callers)
    pctx,                  \* the PredictionContext
    ctx_op,                \* the last call made on it: none, start, add, finalize, query
    context_string,        \* what finalize_section returned last
    query_context,         \* the context text _build_section_query put in its query
    ctx_calls,             \* the calls made so far, by kind
    \* the services called on their own
    call,                  \* the last call: the operation and its arguments
    ret                    \* what that call returned

wfVars == << sections, qpc, idx, progress, cancelled, accumulated_context,
           all_predictions, all_reasoning, all_rag_metadata,
           spc, section_id, previous_context, section_title,
           all_section_questions, root_questions, optimal_top_k, rag_chunks,
           rag_metadata, wave_state, prediction_result, section_result,
           sink_calls, progress_sink, wave_log, retrieval_log, last_response,
           extras_used, child_log, cancel_mark, entered, run_result >>

ctxVars == << pctx, ctx_op, context_string, query_context, ctx_calls >>

svcVars == << call, ret >>

vars == << wfVars, ctxVars, svcVars >>

runVars == << sections, qpc, idx, progress, accumulated_context,
              all_predictions, all_reasoning, all_rag_metadata >>

waveHist == << wave_log, retrieval_log, last_response, extras_used >>

childVars == << spc, section_id, previous_context, section_title,
                all_section_questions, root_questions, optimal_top_k, rag_chunks,
                rag_metadata, wave_state, prediction_result, section_result >>

\* self._max_waves
max_waves == 5

\* WaveState()
NewWaveState ==
    [wave_number |-> 1, pending_questions |-> <<>>,
     predictions |-> DEmpty, reasoning |-> DEmpty]

\* QuestionnaireProgress()
NewProgress ==
    [sections_completed |-> 0, total_sections |-> 0, predictions_made |-> 0,
     current_section |-> "", status |-> "running"]

\* self._rag_metadata: {} at construction, the retrieval figures, or {'error': ..}
RagMetaEmpty == [kind |-> "empty", total_chunks |-> 0, error |-> ""]

NoResult == [predictions |-> DEmpty, reasoning |-> DEmpty,
             rag_metadata |-> RagMetaEmpty,
             updated_context |-> "", waves_executed |-> 0]

NoRunResult == [returned |-> FALSE, status |-> "", total_predictions |-> 0,
                sections_processed |-> 0, final_context |-> ""]

\* the child workflow object before run() is called
ChildBlank ==
    /\ section_title' = ""
    /\ all_section_questions' = <<>>
    /\ root_questions' = <<>>
    /\ optimal_top_k' = 0
    /\ rag_chunks' = <<>>
    /\ rag_metadata' = RagMetaEmpty
    /\ wave_state' = NewWaveState
    /\ prediction_result' = EmptyResult(FALSE)
    /\ section_result' = NoResult
    /\ wave_log' = <<>>
    /\ retrieval_log' = <<>>
    /\ last_response' = "none"
    /\ extras_used' = 0

(***************************************************************************)
(* The runs checked: every one-section run, and the runs of up to          *)
(* MaxSections distinct small sections                                     *)
(***************************************************************************)
SmallSections == {"SEC_P", "SEC_B", MissingSection}

RECURSIVE DistinctLists(_, _)
DistinctLists(S, n) ==
    IF n = 0 THEN { <<>> }
    ELSE LET shorter == DistinctLists(S, n - 1)
         IN  shorter \cup
             { Append(l, x) : l \in { m \in shorter : Len(m) = n - 1 },
                              x \in S }

SectionLists ==
    { <<sid>> : sid \in SectionIds \cup {MissingSection} }
    \cup { l \in DistinctLists(SmallSections, MaxSections) :
             Cardinality(Range(l)) = Len(l) }

Init ==
    /\ sections \in SectionLists
    /\ qpc = "start"
    /\ idx = 1
    /\ progress = NewProgress
    /\ cancelled = FALSE
    /\ accumulated_context = ""
    /\ all_predictions = DEmpty
    /\ all_reasoning = DEmpty
    /\ all_rag_metadata = DEmpty
    /\ spc = "none"
    /\ section_id = ""
    /\ previous_context = ""
    /\ section_title = ""
    /\ all_section_questions = <<>>
    /\ root_questions = <<>>
    /\ optimal_top_k = 0
    /\ rag_chunks = <<>>
    /\ rag_metadata = RagMetaEmpty
    /\ wave_state = NewWaveState
    /\ prediction_result = EmptyResult(FALSE)
    /\ section_result = NoResult
    /\ sink_calls = <<>>
    /\ progress_sink = [message |-> "", current |-> 0, total |-> 0]
    /\ wave_log = <<>>
    /\ retrieval_log = <<>>
    /\ last_response = "none"
    /\ extras_used = 0
    /\ child_log = <<>>
    /\ cancel_mark = [set |-> FALSE, entered |-> 0, ended |-> 0]
    /\ entered = 0
    /\ run_result = NoRunResult
    /\ pctx = NewContext
    /\ ctx_op = "none"
    /\ context_string = ""
    /\ query_context = ""
    /\ ctx_calls = [starts |-> 0, adds |-> 0, reuses |-> 0]
    /\ call = [op |-> "none"]
    /\ ret = <<>>

(***************************************************************************)
(* QuestionnaireAnalysisWorkflow.run                                       *)
(***************************************************************************)
\* the loop head that returns without saving once the run is cancelled
NextIterationDropsSave(i, prog) ==
    IF i <= Len(sections) /\ ~cancelled
    THEN /\ qpc' = "progress"
         /\ idx' = i
         /\ entered' = entered + 1
         /\ progress' = [prog EXCEPT !.current_section = SectionTitle(sections[i])]
    ELSE /\ qpc' = IF cancelled THEN "done" ELSE "save"
         /\ idx' = i
         /\ entered' = entered
         /\ progress' =
              [prog EXCEPT !.status = IF ~cancelled THEN "completed" ELSE "cancelled"]

\* the head of the for loop for the section at position i, with prog the
\* progress record the body left: the cancellation check, then either the
\* next section's progress report or the exit to "Mark as completed" and save
NextIteration(i, prog) ==
    IF i <= Len(sections) /\ ~cancelled
    THEN /\ qpc' = "progress"
         /\ idx' = i
         /\ entered' = entered + 1
         /\ progress' = [prog EXCEPT !.current_section = SectionTitle(sections[i])]
    ELSE /\ qpc' = "save"
         /\ idx' = i
         /\ entered' = entered
         /\ progress' =
              [prog EXCEPT !.status =
                  IF ~cancelled THEN "completed"
                  ELSE IF i <= Len(sections) THEN "cancelled"
                  ELSE @]

\* run() up to its first await
RunStart ==
    /\ qpc = "start"
    /\ NextIteration(1, [progress EXCEPT !.total_sections = Len(sections),
                                         !.status = "running"])
    /\ UNCHANGED << ctxVars, svcVars, sections, cancelled, accumulated_context, all_predictions,
                    all_reasoning, all_rag_metadata, childVars, sink_calls,
                    progress_sink, waveHist, child_log, cancel_mark, run_result >>

\* a child workflow that is handed no prior context
SectionInputNoContext(i) ==
    [section_id |-> sections[i], previous_context |-> ""]

\* the input of the child workflow of the section at position i
SectionInput(i) ==
    [section_id |-> sections[i], previous_context |-> accumulated_context]

\* _send_progress returns (a failure of the sink is logged and ignored), then
\* the child workflow of the section is started
SendProgress ==
    /\ qpc = "progress"
    /\ \E ok \in BOOLEAN :
         progress_sink' =
             IF ok
             THEN [message |-> "Processing " \o progress.current_section,
                   current |-> progress.sections_completed,
                   total |-> progress.total_sections]
             ELSE progress_sink
    /\ qpc' = "child"
    /\ ChildBlank
    /\ spc' = "parse"
    /\ section_id' = SectionInput(idx).section_id
    /\ previous_context' = SectionInput(idx).previous_context
    /\ child_log' = Append(child_log,
                           [sid |-> SectionInput(idx).section_id,
                            prev |-> SectionInput(idx).previous_context,
                            outcome |-> "running", updated_context |-> "",
                            predictions |-> DEmpty, reasoning |-> DEmpty])
    /\ UNCHANGED << ctxVars, svcVars, sections, idx, progress, cancelled, accumulated_context,
                    all_predictions, all_reasoning, all_rag_metadata, sink_calls,
                    cancel_mark, entered, run_result >>

\* the child returned: "Accumulate results", "Update progress", next iteration
SectionReturned ==
    /\ qpc = "child"
    /\ spc = "returned"
    /\ all_predictions' = DUpdate(all_predictions, section_result.predictions)
    /\ all_reasoning' = DUpdate(all_reasoning, section_result.reasoning)
    /\ all_rag_metadata' = DPut(all_rag_metadata, section_id, section_result.rag_metadata)
    /\ accumulated_context' = section_result.updated_context
    /\ NextIteration(idx + 1,
                     [progress EXCEPT
                        !.sections_completed = @ + 1,
                        !.predictions_made = @ + DLen(section_result.predictions)])
    /\ ChildBlank
    /\ spc' = "none"
    /\ section_id' = ""
    /\ previous_context' = ""
    /\ UNCHANGED << ctxVars, svcVars, sections, cancelled, sink_calls, progress_sink, child_log,
                    cancel_mark, run_result >>

\* a failure of the child that is not caught and ends the run
SectionFailureAborts ==
    /\ qpc = "child"
    /\ spc = "failed"
    /\ qpc' = "failed"
    /\ UNCHANGED << ctxVars, svcVars, sections, idx, progress, cancelled, accumulated_context,
                    all_predictions, all_reasoning, all_rag_metadata, childVars,
                    sink_calls, progress_sink, waveHist, child_log, cancel_mark,
                    entered, run_result >>

\* the child raised: the except branch, then the next iteration
SectionFailed ==
    /\ qpc = "child"
    /\ spc = "failed"
    /\ NextIteration(idx + 1, [progress EXCEPT !.sections_completed = @ + 1])
    /\ ChildBlank
    /\ spc' = "none"
    /\ section_id' = ""
    /\ previous_context' = ""
    /\ UNCHANGED << ctxVars, svcVars, sections, cancelled, accumulated_context, all_predictions,
                    all_reasoning, all_rag_metadata, sink_calls, progress_sink,
                    child_log, cancel_mark, run_result >>

\* save_questionnaire_results: it stores the results with questionnaire_status
\* "completed", or raises, and then run() raises
SaveResults ==
    /\ qpc = "save"
    /\ \E ok \in BOOLEAN :
         /\ sink_calls' = Append(sink_calls,
                [ok |-> ok,
                 predictions |-> all_predictions,
                 final_context |-> accumulated_context,
                 questionnaire_status |-> IF ok THEN "completed" ELSE "",
                 sections_ended |-> progress.sections_completed])
         /\ qpc' = IF ok THEN "done" ELSE "failed"
         /\ run_result' =
                IF ok
                THEN [returned |-> TRUE,
                      status |-> progress.status,
                      total_predictions |-> progress.predictions_made,
                      sections_processed |-> progress.sections_completed,
                      final_context |-> accumulated_context]
                ELSE run_result
    /\ UNCHANGED << ctxVars, svcVars, sections, idx, progress, cancelled, accumulated_context,
                    all_predictions, all_reasoning, all_rag_metadata, childVars,
                    progress_sink, waveHist, child_log, cancel_mark, entered >>

\* the signal handler cancel_analysis; it can run whenever run() is not
\* executing, from before its first statement until the workflow has closed
CancelSignal ==
    /\ qpc \notin {"done", "failed"}
    /\ cancelled' = TRUE
    /\ progress' = [progress EXCEPT !.status = "cancelled"]
    /\ cancel_mark' =
          IF cancel_mark.set THEN cancel_mark
          ELSE [set |-> TRUE, entered |-> entered,
                ended |-> Cardinality({k \in 1..Len(child_log) :
                                         child_log[k].outcome # "running"})]
    /\ UNCHANGED << ctxVars, svcVars, sections, qpc, idx, accumulated_context, all_predictions,
                    all_reasoning, all_rag_metadata, childVars, sink_calls,
                    progress_sink, waveHist, child_log, entered, run_result >>

(***************************************************************************)
(* SectionAnalysisWorkflow.run                                             *)
(***************************************************************************)
\* the while loop without its ceiling
WaveLoopUncapped(pending_questions, wave_number) ==
    pending_questions # <<>>

\* the condition of the while loop
WaveLoopContinues(pending_questions, wave_number) ==
    pending_questions # <<>> /\ wave_number <= max_waves

\* the entry of child_log of the child in flight, closed with its failure
CloseChild(outcome, updated_context) ==
    child_log' = [child_log EXCEPT ![Len(child_log)] =
                     [@ EXCEPT !.outcome = outcome,
                               !.updated_context = updated_context]]

\* Step 1: parse_section_structure; get_section_info raises ValueError for a
\* section id it does not hold, and the child run fails
ParseSection ==
    /\ spc = "parse"
    /\ IF section_id \in SectionIds
       THEN /\ spc' = "retrieve"
            /\ section_title' = SectionInfo(section_id).title
            /\ all_section_questions' = SectionInfo(section_id).all_questions
            /\ root_questions' = SectionInfo(section_id).root_questions
            /\ optimal_top_k' = SectionInfo(section_id).optimal_top_k
            /\ UNCHANGED child_log
       ELSE /\ spc' = "failed"
            /\ CloseChild("failed", "")
            /\ UNCHANGED << section_title, all_section_questions, root_questions,
                            optimal_top_k >>
    /\ UNCHANGED << ctxVars, svcVars, runVars, cancelled, section_id, previous_context, rag_chunks,
                    rag_metadata, wave_state, prediction_result, section_result,
                    sink_calls, progress_sink, waveHist,
                    cancel_mark, entered,
                    run_result >>

\* what the retrieval activity can come back with: chunks, a reported failure
\* (unhealthy, failed or raised inside the activity), or an activity error
RetrievalOutcomes ==
    { [kind |-> "ok", chunks |-> <<"chunk">>, error |-> ""],
      [kind |-> "failed", chunks |-> <<>>, error |-> "RAG API unhealthy"],
      [kind |-> "raised", chunks |-> <<>>, error |-> "RAG API unhealthy"] }

\* a retrieval whose failure ends the child run
RetrieveSupportUncaught ==
    /\ spc = "retrieve"
    /\ \E rag_result \in RetrievalOutcomes :
         /\ rag_chunks' = rag_result.chunks
         /\ rag_metadata' =
              IF rag_result.kind = "ok"
              THEN [kind |-> "ok", total_chunks |-> Len(rag_result.chunks),
                    error |-> ""]
              ELSE [kind |-> "error", total_chunks |-> 0,
                    error |-> rag_result.error]
    /\ retrieval_log' = Append(retrieval_log, [top_k |-> optimal_top_k])
    /\ wave_state' = [wave_state EXCEPT !.pending_questions = root_questions]
    /\ spc' = IF rag_metadata'.kind = "error" THEN "failed"
              ELSE IF WaveLoopContinues(root_questions, wave_state.wave_number)
              THEN "predict" ELSE "finalize"
    /\ IF rag_metadata'.kind = "error" THEN CloseChild("failed", "")
       ELSE UNCHANGED child_log
    /\ UNCHANGED << ctxVars, svcVars, runVars, cancelled, section_id, previous_context,
                    section_title, all_section_questions, root_questions,
                    optimal_top_k, prediction_result, section_result, sink_calls,
                    progress_sink, wave_log, last_response, extras_used,
                    cancel_mark, entered, run_result >>

\* Step 2: retrieve_section_chunks, then pending = root questions and the
\* first test of the while loop
RetrieveSupport ==
    /\ spc = "retrieve"
    /\ \E rag_result \in RetrievalOutcomes :
         /\ rag_chunks' = rag_result.chunks
         /\ rag_metadata' =
              IF rag_result.kind = "ok"
              THEN [kind |-> "ok", total_chunks |-> Len(rag_result.chunks),
                    error |-> ""]
              ELSE [kind |-> "error", total_chunks |-> 0,
                    error |-> rag_result.error]
    /\ retrieval_log' = Append(retrieval_log, [top_k |-> optimal_top_k])
    /\ wave_state' = [wave_state EXCEPT !.pending_questions = root_questions]
    /\ spc' = IF WaveLoopContinues(root_questions, wave_state.wave_number)
              THEN "predict" ELSE "finalize"
    /\ UNCHANGED << ctxVars, svcVars, runVars, cancelled, section_id, previous_context,
                    section_title, all_section_questions, root_questions,
                    optimal_top_k, prediction_result, section_result, sink_calls,
                    progress_sink, wave_log, last_response, extras_used,
                    child_log, cancel_mark, entered, run_result >>

\* the answers the collaborator gives to a question
AnswersFor(question) ==
    IF question.type = "single" /\ question.options # <<>>
    THEN { StrAns(question.options[k].label) : k \in 1..Len(question.options) }
    ELSE IF question.type = "multi" /\ question.options # <<>>
    THEN { ListAns(<<question.options[1].label>>),
           ListAns([k \in 1..Len(question.options) |-> question.options[k].label]) }
    ELSE { StrAns("text") }

\* a JSON object answering the ids given (of the batch) and extra (outside it)
ObjectResponse(all_questions, given, extra, ans) ==
    LET keys == FilterById(all_questions, given) \o FilterById(all_questions, extra)
    IN  [kind |-> "object",
         predictions |-> [k |-> keys, v |-> ans],
         reasoning |-> [k |-> keys, v |-> [x \in given \cup extra |-> "ok"]],
         confidence |-> [k |-> keys, v |-> [x \in given \cup extra |-> "high"]]]

NonObjectResponse(kind) ==
    [kind |-> kind, predictions |-> DEmpty, reasoning |-> DEmpty,
     confidence |-> DEmpty]

\* the responses of the prediction collaborator to a batch: an exception of
\* the call, a text that is not JSON, JSON that is not an object, or an object
\* answering some ids of the batch and some ids outside it
Responses(pending, all_questions, extras_left) ==
    { NonObjectResponse(kind) : kind \in {"raise", "not_json", "non_object"} }
    \cup
    UNION { UNION { { ObjectResponse(all_questions, given, extra, ans) :
                        ans \in { f \in [given \cup extra ->
                                         UNION { AnswersFor(q) : q \in Range(all_questions) }] :
                                    \A x \in given \cup extra :
                                        f[x] \in AnswersFor(QuestionById(all_questions, x)) } }
                    : extra \in { e \in SUBSET (Ids(all_questions) \ Range(pending)) :
                                    Cardinality(e) <= extras_left } }
            : given \in { g \in SUBSET Range(pending) :
                            Cardinality(Range(pending) \ g) <= MaxOmitted } }

\* _process_wave up to its second await: the batch-prediction activity and
\* "Add to accumulated predictions"
PredictWave ==
    /\ spc = "predict"
    /\ \E response \in Responses(wave_state.pending_questions, all_section_questions,
                                  MaxExtra - extras_used) :
         LET result == predict_question_batch_with_rag(
                           response, wave_state.pending_questions,
                           all_section_questions)
         IN  /\ prediction_result' = result
             /\ wave_state' =
                  [wave_state EXCEPT
                     !.predictions = DUpdate(@, result.predictions),
                     !.reasoning = DUpdate(@, result.reasoning)]
             /\ wave_log' = Append(wave_log,
                                   [batch |-> wave_state.pending_questions,
                                    wave_number |-> wave_state.wave_number,
                                    chunks |-> rag_chunks])
             /\ retrieval_log' = retrieval_log
             /\ last_response' = response.kind
             /\ extras_used' = extras_used
                                + Cardinality(DKeys(response.predictions)
                                              \ Range(wave_state.pending_questions))
    /\ spc' = "resolve"
    /\ UNCHANGED << ctxVars, svcVars, runVars, cancelled, section_id, previous_context,
                    section_title, all_section_questions, root_questions,
                    optimal_top_k, rag_chunks, rag_metadata, section_result,
                    sink_calls, progress_sink, child_log, cancel_mark, entered,
                    run_result >>

\* the rest of _process_wave (resolve_next_questions, the new pending list),
\* then the break or "Move to next wave" and the next test of the while loop
ResolveNext ==
    /\ spc = "resolve"
    /\ LET newly_revealed_ids ==
               resolve_next_questions(prediction_result.predictions,
                                      all_section_questions)
           newly_revealed_questions ==
               FilterById(all_section_questions, newly_revealed_ids)
           next_wave == IF newly_revealed_ids = {} THEN wave_state.wave_number
                        ELSE wave_state.wave_number + 1
       IN  /\ wave_state' = [wave_state EXCEPT
                               !.pending_questions = newly_revealed_questions,
                               !.wave_number = next_wave]
           /\ spc' = IF newly_revealed_ids # {}
                        /\ WaveLoopContinues(newly_revealed_questions, next_wave)
                     THEN "predict" ELSE "finalize"
    /\ UNCHANGED << ctxVars, svcVars, runVars, cancelled, section_id, previous_context,
                    section_title, all_section_questions, root_questions,
                    optimal_top_k, rag_chunks, rag_metadata, prediction_result,
                    section_result, sink_calls, progress_sink, waveHist, child_log,
                    cancel_mark, entered, run_result >>

\* Step 4: generate_section_context and the return of the section result
FinalizeSection ==
    /\ spc = "finalize"
    /\ LET updated_context ==
               generate_section_context(section_title, wave_state.predictions,
                                        wave_state.reasoning, previous_context)
       IN  /\ section_result' =
                 [predictions |-> wave_state.predictions,
                  reasoning |-> wave_state.reasoning,
                  rag_metadata |-> rag_metadata,
                  updated_context |-> updated_context,
                  waves_executed |-> wave_state.wave_number]
           /\ child_log' = [child_log EXCEPT ![Len(child_log)] =
                               [@ EXCEPT !.outcome = "returned",
                                         !.updated_context = updated_context,
                                         !.predictions = wave_state.predictions,
                                         !.reasoning = wave_state.reasoning]]
    /\ spc' = "returned"
    /\ UNCHANGED << ctxVars, svcVars, runVars, cancelled, section_id, previous_context,
                    section_title, all_section_questions, root_questions,
                    optimal_top_k, rag_chunks, rag_metadata, wave_state,
                    prediction_result, sink_calls, progress_sink, waveHist, cancel_mark, entered, run_result >>

\* execution_timeout of the child workflow (10 minutes): the child run ends
\* in failure wherever it is
ChildTimeout ==
    /\ spc \in {"parse", "retrieve", "predict", "resolve", "finalize"}
    /\ spc' = "failed"
    /\ CloseChild("failed", "")
    /\ UNCHANGED << ctxVars, svcVars, runVars, cancelled, section_id, previous_context,
                    section_title, all_section_questions, root_questions,
                    optimal_top_k, rag_chunks, rag_metadata, wave_state,
                    prediction_result, section_result, sink_calls, progress_sink,
                    waveHist, cancel_mark, entered,
                    run_result >>

Next ==
    \/ RunStart
    \/ SendProgress
    \/ SectionReturned
    \/ SectionFailed
    \/ SaveResults
    \/ CancelSignal
    \/ ParseSection
    \/ RetrieveSupport
    \/ PredictWave
    \/ ResolveNext
    \/ FinalizeSection
    \/ ChildTimeout

Spec == Init /\ [][Next]_vars

(***************************************************************************)
(* The callers of one PredictionContext                                    *)
(***************************************************************************)
RECURSIVE Repeat(_, _)
\* s * n
Repeat(s, n) ==
    IF n = 0 THEN ""
    ELSE IF n % 2 = 0 THEN LET half == Repeat(s, n \div 2) IN half \o half
    ELSE s \o Repeat(s, n - 1)

LongText == Repeat("x", LongLen)

\* a rationale of 200 characters, too long for the detail rendering
LongReason == Repeat("r", 200)

\* d[key] = val on a dict literal
DOf(keys, vals) == [k |-> keys, v |-> [x \in Range(keys) |-> vals[x]]]

\* the (predictions, reasoning) pairs a caller passes to
\* add_section_predictions: a short wave and a wave with long answers
ContextWaves ==
    { [predictions |-> DOf(<<"Q1", "Q2">>,
                           [x \in {"Q1", "Q2"} |->
                               IF x = "Q1" THEN StrAns("Yes")
                               ELSE ListAns(<<"a", "b", "c", "d">>)]),
       reasoning |-> DOf(<<"Q1">>, [x \in {"Q1"} |-> "ok"])],
      [predictions |-> DOf(<<"Q1", "Q3">>, [x \in {"Q1", "Q3"} |-> StrAns(LongText)]),
       reasoning |-> DOf(<<"Q1">>, [x \in {"Q1"} |-> LongReason])] }

\* the section id a caller passes to start_new_section: the next new one, or
\* again the first one once it was finalized
StartableSections ==
    { "S" \o ToString(ctx_calls.starts - ctx_calls.reuses + 1) }
    \cup (IF ctx_calls.reuses < MaxReuse THEN DKeys(pctx.sections) \cap {"S1"} ELSE {})

\* a caller starts a section when none is in progress
StartNewSection ==
    /\ ctx_calls.starts < MaxStarts
    /\ pctx.current_section_id = NoSection
    /\ \E sid \in StartableSections :
         /\ pctx' = start_new_section(pctx, sid)
         /\ ctx_calls' = [ctx_calls EXCEPT
                            !.starts = @ + 1,
                            !.reuses = IF sid \in DKeys(pctx.sections)
                                       THEN @ + 1 ELSE @]
    /\ ctx_op' = "start"
    /\ UNCHANGED << wfVars, svcVars, context_string, query_context >>

\* a call without a section in progress changes nothing and is not counted
AddSectionPredictions ==
    /\ ctx_calls.adds < MaxAdds
    /\ \E wave \in ContextWaves :
         pctx' = add_section_predictions(pctx, wave.predictions, wave.reasoning)
    /\ ctx_calls' = [ctx_calls EXCEPT
                       !.adds = IF pctx.current_section_id = NoSection
                                THEN @ ELSE @ + 1]
    /\ ctx_op' = "add"
    /\ UNCHANGED << wfVars, svcVars, context_string, query_context >>

FinalizeContextSection ==
    /\ LET result == finalize_section(pctx)
       IN  /\ pctx' = result.ctx
           /\ context_string' = result.context_string
    /\ ctx_op' = "finalize"
    /\ UNCHANGED << wfVars, svcVars, query_context, ctx_calls >>

\* retrieve_chunks_for_section is handed the context finalize_section returned
BuildSectionQuery ==
    /\ ctx_op = "finalize"
    /\ query_context' = context_preview(context_string)
    /\ ctx_op' = "query"
    /\ UNCHANGED << wfVars, svcVars, pctx, context_string, ctx_calls >>

ContextInit == Init /\ sections = <<>>

ContextNext ==
    \/ StartNewSection
    \/ AddSectionPredictions
    \/ FinalizeContextSection
    \/ BuildSectionQuery

ContextSpec == ContextInit /\ [][ContextNext]_vars

(***************************************************************************)
(* The callers of the Segmenter and the Resolver                           *)
(***************************************************************************)
\* the items a questions array is made of: two headers and three questions
\* with reveal edges among them
ArrayItems ==
    { HeaderQ("SA", "Alpha"), HeaderQ("SB", "Beta"),
      InputQ("Q1", TRUE, <<"Q2">>),
      InputQ("Q2", FALSE, <<>>),
      ChoiceQ("Q3", "single", << Opt("Yes", <<"Q1">>), OptPlain("No") >>) }

\* the questions arrays: every list of at most MaxItems different items
QuestionArrays ==
    { l \in DistinctLists(ArrayItems, MaxItems) : Cardinality(Range(l)) = Len(l) }

\* the question lists find_root_questions is given: the sections of the
\* catalog and every list of different questions of ArrayItems
QuestionLists ==
    { SectionQuestions(sid) : sid \in SectionIds } \cup { SecResolver }
    \cup { l \in QuestionArrays : \A n \in 1..Len(l) : l[n].type # "section" }

\* the complexity argument: the three levels and a string that is none of them
Complexities == {"low", "medium", "high", "unknown"}

\* the analyzer and the resolver keep nothing from one call to the next: a
\* behaviour is one call on a fresh object
ParseSections ==
    /\ call.op = "none"
    /\ \E questions_array \in QuestionArrays :
         /\ call' = [op |-> "parse_sections", questions_array |-> questions_array]
         /\ ret' = [raised |-> "", sections |-> parse_sections(questions_array)]
    /\ UNCHANGED << wfVars, ctxVars >>

FindRootQuestions ==
    /\ call.op = "none"
    /\ \E questions \in QuestionLists :
         /\ call' = [op |-> "find_root_questions", questions |-> questions]
         /\ ret' = find_root_questions(questions)
    /\ UNCHANGED << wfVars, ctxVars >>

CalculateOptimalTopK ==
    /\ call.op = "none"
    /\ \E num_questions \in 1..MaxQuestions, complexity \in Complexities :
         /\ call' = [op |-> "calculate_optimal_top_k",
                     num_questions |-> num_questions, complexity |-> complexity]
         /\ ret' = calculate_optimal_top_k(num_questions, complexity)
    /\ UNCHANGED << wfVars, ctxVars >>

\* the sections a resolver is built for
ResolverSections == { SecResolver, SecE2E, SecOrphan }

\* an id no section holds
UnknownQuestion == "ZZ"

\* the answers a prediction can carry: labels, a {value: label} dict, lists
\* of labels, and a value that is none of these
ResolverAnswers ==
    { StrAns("Yes"), StrAns("No"), StrAns("a"), StrAns("b"), StrAns("zzz"),
      DictAns("Yes"), DictAns("a"),
      ListAns(<<"a", "b">>), ListAns(<<"b", "a">>), ListAns(<<"c">>),
      ListAns(<<"Yes">>), ListAns(<<>>), OtherAns }

\* the entries a wave's prediction map is made of
WaveEntries ==
    { << "S1", StrAns("Yes") >>, << "S1", StrAns("No") >>,
      << "M1", ListAns(<<"a", "b">>) >>, << "M1", StrAns("b") >>,
      << "I1", StrAns("text") >>, << "B1", StrAns("Yes") >>,
      << "T1", StrAns("text") >>, << UnknownQuestion, StrAns("Yes") >> }

\* the prediction maps: at most MaxWave entries with different ids, in
\* every order
WavePredictions ==
    { DOf([n \in 1..Len(l) |-> l[n][1]],
          [qid \in { l[n][1] : n \in 1..Len(l) } |->
              (CHOOSE e \in Range(l) : e[1] = qid)[2]])
      : l \in { m \in DistinctLists(WaveEntries, MaxWave) :
                  Cardinality({ m[n][1] : n \in 1..Len(m) }) = Len(m) } }

\* list(a_set): the ids of the set in an order the caller cannot choose
SetOrders(S) ==
    { l \in DistinctLists(S, Cardinality(S)) : Range(l) = S /\ Len(l) = Cardinality(S) }

ResolveNextQuestions ==
    /\ call.op = "none"
    /\ \E questions \in ResolverSections :
         \E question_id \in Ids(questions) \cup {UnknownQuestion},
            answer \in ResolverAnswers :
              /\ call' = [op |-> "resolve_next_questions", questions |-> questions,
                          question_id |-> question_id, answer |-> answer]
              /\ ret' = resolve_next(questions, question_id, answer)
    /\ UNCHANGED << wfVars, ctxVars >>

ProcessWave ==
    /\ call.op = "none"
    /\ \E wave_predictions \in WavePredictions :
         /\ call' = [op |-> "process_wave", questions |-> SecResolver,
                     wave_predictions |-> wave_predictions]
         /\ ret' \in SetOrders(process_wave(SecResolver, wave_predictions))
    /\ UNCHANGED << wfVars, ctxVars >>

\* the ids of the questions of a generated section, and an id no section holds
GraphIdNames == << "A", "B", "C", "D", "E" >>

GhostId == "GHOST"

\* the 'next' lists of a question that hold m different ids out of targets
NextLists(targets, m) ==
    { l \in DistinctLists(targets, m) : Len(l) = m /\ Cardinality(Range(l)) = m }

RECURSIVE GraphSectionsFrom(_, _, _)
\* the questions k..n of a section of n input questions that has at most
\* edges reveal edges left to give, to its own ids or to the id outside
GraphSectionsFrom(n, k, edges) ==
    IF k > n THEN { <<>> }
    ELSE UNION { LET rests == GraphSectionsFrom(n, k + 1, edges - m)
                 IN  { << InputQ(GraphIdNames[k], l # <<>>, l) >> \o rest
                       : l \in NextLists({ GraphIdNames[j] : j \in 1..n }
                                         \cup {GhostId}, m),
                         rest \in rests }
                 : m \in 0..edges }

\* every section of at most max_questions questions and max_edges reveal
\* edges, the empty section included
GraphSections(max_questions, max_edges) ==
    UNION { GraphSectionsFrom(n, 1, max_edges) : n \in 0..max_questions }

\* the sections a resolver is validated on: the generated ones and those of
\* the catalog
ValidatedSections(max_questions, max_edges) ==
    GraphSections(max_questions, max_edges)
    \cup { SectionQuestions(sid) : sid \in SectionIds } \cup { SecResolver }

ValidateSectionStructure ==
    /\ call.op = "none"
    /\ \E questions \in ValidatedSections(MaxGraph, MaxEdges) :
         /\ call' = [op |-> "validate_section_structure", questions |-> questions]
         /\ ret' = validate_section_structure(questions)
    /\ UNCHANGED << wfVars, ctxVars >>

GetMaxWaveDepth ==
    /\ call.op = "none"
    /\ \E questions \in ValidatedSections(MaxGraph, MaxEdges) :
         /\ call' = [op |-> "get_max_wave_depth", questions |-> questions]
         /\ ret' = get_max_wave_depth(questions)
    /\ UNCHANGED << wfVars, ctxVars >>

ServiceInit == Init /\ sections = <<>>

ServiceNext ==
    \/ ParseSections
    \/ FindRootQuestions
    \/ CalculateOptimalTopK
    \/ ResolveNextQuestions
    \/ ProcessWave
    \/ ValidateSectionStructure
    \/ GetMaxWaveDepth

ServiceSpec == ServiceInit /\ [][ServiceNext]_vars

(***************************************************************************)
(* Claims                                                                  *)
(***************************************************************************)
\* the number of batch-prediction calls of the section run in flight
PredictionCalls == Len(wave_log)

\* the ids sent to batch prediction by the call number n of the section run
BatchIds(n) == Range(wave_log[n].batch)

\* C1: whatever the reveal graph (a cycle included) and whatever the
\* collaborator answers, a section run makes at most 5 batch-prediction
\* calls and no call is pending once 5 were made; every pass of the wave loop
\* makes one call and moves to the next wave (the wave number is the number
\* of calls made, plus one while a call is pending), so the loop cannot go
\* round forever and leaves for the finalize step
C1_WaveLoopTerminates ==
    /\ PredictionCalls <= max_waves
    /\ spc = "predict" =>
          /\ PredictionCalls < max_waves
          /\ wave_state.wave_number = PredictionCalls + 1
    /\ spc = "resolve" => wave_state.wave_number = PredictionCalls
    /\ spc \in {"finalize", "returned"} =>
          wave_state.wave_number \in {PredictionCalls, PredictionCalls + 1}

\* C1 witness: the cyclic section made its 5th call and left the loop for
\* the finalize step
C1_Witness ==
    /\ section_id = "SEC_CYC"
    /\ PredictionCalls = max_waves
    /\ spc = "finalize"

\* C2: no question id is sent to batch prediction in more than one wave of a
\* section run, and the pending batch of a wave holds no id the section has
\* already answered
C2_NoQuestionSentTwice ==
    /\ \A a, b \in 1..Len(wave_log) :
          a < b => BatchIds(a) \cap BatchIds(b) = {}
    /\ spc = "predict" =>
          Range(wave_state.pending_questions) \cap DKeys(wave_state.predictions) = {}

\* C2 witness: the diamond section, the collaborator answering exactly the
\* pending ids, has DQ in the batches of wave 2 and of wave 3
C2_Witness ==
    /\ section_id = "SEC_DIA"
    /\ extras_used = 0
    /\ PredictionCalls = 3
    /\ "DQ" \in BatchIds(2) \cap BatchIds(3)
    /\ \A n \in 1..3 : BatchIds(n) \subseteq DKeys(wave_state.predictions)

\* C3: the wave number of a section run stays between 1 and the ceiling, and
\* the waves_executed of the section result never exceeds the ceiling
C3_WaveNumberWithinCeiling ==
    /\ wave_state.wave_number \in 1..max_waves
    /\ spc = "returned" => section_result.waves_executed <= max_waves

\* C3 witness: the cyclic section returns waves_executed = 6 after 5 calls
C3_Witness ==
    /\ section_id = "SEC_CYC"
    /\ spc = "returned"
    /\ PredictionCalls = max_waves
    /\ section_result.waves_executed = max_waves + 1

\* the collaborator answered exactly the pending ids in every call of the
\* section run: nothing outside a batch, nothing filled in, no call failed
ExactAnswers ==
    /\ extras_used = 0
    /\ \A n \in 1..Len(wave_log) : BatchIds(n) \subseteq DKeys(wave_state.predictions)
    /\ \A qid \in DKeys(wave_state.reasoning) : wave_state.reasoning.v[qid] = "ok"

\* C4: the section with roots R1, R2, R3 whose single-choice root R1 reveals
\* X1 and X2 (which reveal nothing), the collaborator answering exactly the
\* pending ids and choosing the revealing option: wave 1 predicts the 3
\* roots, wave 2 the 2 revealed questions, no third call is made,
\* waves_executed is 2 and the result holds exactly the 5 predictions
C4_EndToEndTwoWaves ==
    ( /\ section_id = "SEC_E2E"
      /\ spc = "returned"
      /\ ExactAnswers
      /\ wave_state.predictions.v["R1"] = StrAns("Yes") )
    => /\ Len(wave_log) = 2
       /\ wave_log[1].batch = <<"R1", "R2", "R3">>
       /\ wave_log[1].wave_number = 1
       /\ wave_log[2].batch = <<"X1", "X2">>
       /\ wave_log[2].wave_number = 2
       /\ section_result.waves_executed = 2
       /\ DLen(section_result.predictions) = 5
       /\ DKeys(section_result.predictions) = {"R1", "R2", "R3", "X1", "X2"}

\* C4 witness: that section returned after the collaborator answered exactly
\* the pending ids of both waves, R1 with the revealing option
C4_Witness ==
    /\ section_id = "SEC_E2E"
    /\ spc = "returned"
    /\ ExactAnswers
    /\ wave_state.predictions.v["R1"] = StrAns("Yes")
    /\ Len(wave_log) = 2

\* the entries of the wave's result for the pending batch are complete, and
\* an entry of low confidence is the fallback answer of its question
BatchFilled ==
    \A qid \in BatchIds(Len(wave_log)) :
        /\ qid \in DKeys(prediction_result.predictions)
        /\ qid \in DKeys(prediction_result.confidence)
        /\ prediction_result.confidence.v[qid] = "low" =>
              prediction_result.predictions.v[qid]
                = FallbackAnswer(QuestionById(all_section_questions, qid))

\* every entry of the wave's result for the pending batch is the fallback
\* answer with confidence 'low'
BatchAllFallback ==
    \A qid \in BatchIds(Len(wave_log)) :
        /\ qid \in DKeys(prediction_result.predictions)
        /\ qid \in DKeys(prediction_result.confidence)
        /\ prediction_result.confidence.v[qid] = "low"
        /\ prediction_result.predictions.v[qid]
             = FallbackAnswer(QuestionById(all_section_questions, qid))

\* C5: after a batch-prediction step whose collaborator returned a response,
\* every question of the pending batch has an entry in the wave's
\* predictions; an omitted id (every id when the response is not valid JSON)
\* holds the first option's label, or '' without options, with confidence
\* 'low'
C5_BatchAlwaysComplete ==
    (spc = "resolve" /\ last_response # "raise") =>
        /\ BatchFilled
        /\ last_response = "not_json" => BatchAllFallback

\* C5 witness: the collaborator returned JSON that is not an object, and the
\* wave's predictions are empty
C5_Witness ==
    /\ spc = "resolve"
    /\ last_response = "non_object"
    /\ BatchIds(Len(wave_log)) # {}
    /\ DKeys(prediction_result.predictions) = {}

\* C6: when the batch-prediction call of a wave fails, the wave still ends
\* with a fallback answer for every pending question, and the section run is
\* not aborted
C6_FailedCallFallbackFilled ==
    (spc = "resolve" /\ last_response = "raise") => BatchAllFallback

\* C6 witness: the call failed, the wave's predictions are empty and the
\* section run goes on
C6_Witness ==
    /\ spc = "resolve"
    /\ last_response = "raise"
    /\ BatchIds(Len(wave_log)) # {}
    /\ DKeys(prediction_result.predictions) = {}

\* the number of child runs that have ended (returned or failed)
EndedChildren ==
    Cardinality({ k \in 1..Len(child_log) : child_log[k].outcome # "running" })

\* C7: once the cancel signal was delivered, no further section is entered,
\* at most one child run ends after it (the one in flight), and a run that
\* returns has final status 'cancelled'
C7_CancelStopsRun ==
    cancel_mark.set =>
        /\ entered = cancel_mark.entered
        /\ EndedChildren <= cancel_mark.ended + 1
        /\ qpc = "done" => run_result.status = "cancelled"

\* C7 witness: a run over an empty section list, cancelled before run()
\* started, returns status 'running'
C7_Witness ==
    /\ sections = <<>>
    /\ cancel_mark.set
    /\ qpc = "done"
    /\ run_result.status = "running"

\* the context returned by the latest of the first n child runs that
\* returned, '' when none did
LatestContext(n) ==
    LET done == { j \in 1..n : child_log[j].outcome = "returned" }
    IN  IF done = {} THEN ""
        ELSE child_log[CHOOSE j \in done : \A m \in done : m <= j].updated_context

C9_FailedSectionCounted ==
    [][ (qpc = "child" /\ spc = "failed" /\ qpc' # "child") =>
          /\ progress'.sections_completed = progress.sections_completed + 1
          /\ progress'.predictions_made = progress.predictions_made
          /\ all_predictions' = all_predictions
          /\ all_reasoning' = all_reasoning
          /\ all_rag_metadata' = all_rag_metadata
          /\ accumulated_context' = accumulated_context
          /\ idx' = idx + 1
          /\ qpc' = IF idx < Len(sections) /\ ~cancelled THEN "progress" ELSE "save"
          /\ qpc' = "progress" =>
                progress'.current_section = SectionTitle(sections[idx + 1])
      ]_vars

\* C9 witness: the first section's child run failed and the second section's
\* child run was started, with one section counted and no prediction
C9_Witness ==
    /\ Len(child_log) = 2
    /\ child_log[1].outcome = "failed"
    /\ qpc = "child"
    /\ progress.sections_completed = 1
    /\ progress.predictions_made = 0
    /\ accumulated_context = ""

\* C10: the result sink is called at most once, a run has ended exactly when
\* the sink was called once, and the call is made when no child run is in
\* flight and every section that was started has ended
C10_SavedExactlyOnce ==
    /\ Len(sink_calls) <= 1
    /\ (qpc \in {"done", "failed"}) <=> (Len(sink_calls) = 1)
    /\ Len(sink_calls) = 1 =>
          /\ spc = "none"
          /\ EndedChildren = Len(child_log)
          /\ sink_calls[1].sections_ended = Len(child_log)

\* C10 witness: a cancelled run in which a section failed has called the
\* sink once
C10_Witness ==
    /\ Len(sink_calls) = 1
    /\ cancelled
    /\ \E k \in 1..Len(child_log) : child_log[k].outcome = "failed"
    /\ qpc = "done"

\* C11: a run ends in failure only by a failed call of the result sink: a
\* child run that failed (at parse, or ended by its timeout during
\* retrieval, prediction or resolution) leaves the outer run waiting for it
\* and going on, and a run that has ended, in failure or not, has reached the
\* persist step
C11_OnlySinkFailureFailsRun ==
    /\ qpc = "failed" => (Len(sink_calls) = 1 /\ ~sink_calls[1].ok)
    /\ qpc = "done" => (Len(sink_calls) = 1 /\ sink_calls[1].ok)
    /\ spc = "failed" => qpc = "child"
    /\ (\E k \in 1..Len(child_log) : child_log[k].outcome = "failed")
          => (qpc \in {"progress", "child", "save"} \/ Len(sink_calls) = 1)

\* C11 witness: a run in which one section failed and the retrieval of
\* another failed has persisted its results and returned
C11_Witness ==
    /\ qpc = "done"
    /\ sink_calls[1].ok
    /\ \E k \in 1..Len(child_log) : child_log[k].outcome = "failed"
    /\ \E sid \in DKeys(all_rag_metadata) : all_rag_metadata.v[sid].kind = "error"
    /\ ~cancelled

\* the child run has made its retrieval call
Retrieved == spc \in {"predict", "resolve", "finalize", "returned"}

C13_RetrievalFailureDegrades ==
    /\ [](rag_metadata.kind = "error" =>
            /\ rag_chunks = <<>>
            /\ \A n \in 1..Len(wave_log) : wave_log[n].chunks = <<>>
            /\ spc = "returned" =>
                  /\ section_result.predictions = wave_state.predictions
                  /\ section_result.rag_metadata.kind = "error")
    /\ [][ (spc = "retrieve" /\ rag_metadata'.kind = "error") =>
             /\ spc' = IF root_questions # <<>> THEN "predict" ELSE "finalize"
             /\ wave_state'.pending_questions = root_questions
             /\ child_log' = child_log
         ]_vars

\* C13 witness: a section whose retrieval failed returned the predictions of
\* its two waves
C13_Witness ==
    /\ spc = "returned"
    /\ rag_metadata.kind = "error"
    /\ rag_chunks = <<>>
    /\ Len(wave_log) = 2
    /\ DLen(section_result.predictions) = 5

RECURSIVE CompressorAfter(_)
\* the PredictionContext that was fed, section by section, the decisions of
\* the first n child runs that returned
CompressorAfter(n) ==
    IF n = 0 THEN NewContext
    ELSE IF child_log[n].outcome # "returned" THEN CompressorAfter(n - 1)
    ELSE finalize_section(
             add_section_predictions(
                 start_new_section(CompressorAfter(n - 1), child_log[n].sid),
                 child_log[n].predictions, child_log[n].reasoning)).ctx

\* C14: the context a section run returns, and the prior context the next
\* section is given, is what finalize_section of the Context Compressor
\* renders over the decisions of the sections run so far
C14_ContextIsCompressorOutput ==
    /\ spc = "returned" =>
          section_result.updated_context
            = build_context_string(CompressorAfter(Len(child_log)))
    /\ spc \in {"parse", "retrieve", "predict", "resolve", "finalize"} =>
          previous_context
            = build_context_string(CompressorAfter(Len(child_log) - 1))

\* C14 witness: the one-question section returns the text built by
\* generate_section_context, which is not the Compressor's rendering
C14_Witness ==
    /\ spc = "returned"
    /\ section_id = "SEC_P"
    /\ Len(child_log) = 1
    /\ wave_state.predictions.k = <<"P1">>
    /\ wave_state.reasoning.k = <<"P1">>
    /\ section_result.updated_context
         = "[Section: " \o SectionTitle("SEC_P") \o "]\n- P1: text\n  (Reasoning: ok)"
    /\ build_context_string(CompressorAfter(1))
         = "[RECENT SECTIONS - Full Detail]\n\nSection: SEC_P\n- P1: text\n  Reasoning: ok"

\* C15: the context string finalize_section returns is never longer than
\* 3000 characters, whatever calls came before
C15_ContextWithinBudget ==
    ctx_op = "finalize" => Len(context_string) <= 3000

\* C15 witness: one finalized section holding the wave with two long answers;
\* the single-tier rendering is the detail of that one section
C15_Witness ==
    /\ ctx_op = "finalize"
    /\ pctx.sections.k = <<"S1">>
    /\ pctx.sections.v["S1"].predictions.k = <<"Q1", "Q3">>
    /\ TwoTierContext(pctx) # context_string
    /\ context_string = compress_context(pctx, TwoTierContext(pctx))
    /\ Len(context_string) > 2 * LongLen

\* four sections are finalized, in this order, and the last two hold decisions
FourSectionsFinalized ==
    /\ ctx_op = "finalize"
    /\ pctx.sections.k = << "S1", "S2", "S3", "S4" >>
    /\ DLen(pctx.sections.v["S3"].predictions) >= 1
    /\ DLen(pctx.sections.v["S4"].predictions) >= 1

\* sections 3 and 4 in full detail, sections 1 and 2 as their summary lines
DetailOfLastTwo ==
    JoinWith(<< "[RECENT SECTIONS - Full Detail]",
                format_section_detail(pctx.sections.v["S3"]),
                format_section_detail(pctx.sections.v["S4"]),
                "\n[OLDER SECTIONS - Summarized]",
                "- " \o pctx.sections.v["S1"].summary,
                "- " \o pctx.sections.v["S2"].summary >>,
             "\n\n")

\* the detail of a finalized section has one line per decision of it
OneLinePerDecision(sid) ==
    LET section_data == pctx.sections.v[sid]
        lines == DetailParts(section_data.predictions.k, section_data.predictions,
                             section_data.reasoning)
    IN  \A qid \in DKeys(section_data.predictions) :
            Cardinality({ n \in 1..Len(lines) :
                            lines[n] = "- " \o qid \o ": "
                                       \o AnswerStr(section_data.predictions.v[qid]) }) = 1

\* C16: after four sections were finalized in order, the third and fourth with
\* at least one decision each, and when that rendering is at most 3000
\* characters long, finalize_section returns sections 3 and 4 in full detail
\* (one line per decision) and sections 1 and 2 as their one-line summaries
C16_LastTwoInDetail ==
    (FourSectionsFinalized /\ Len(DetailOfLastTwo) <= 3000) =>
        /\ context_string = DetailOfLastTwo
        /\ OneLinePerDecision("S3")
        /\ OneLinePerDecision("S4")
        /\ \A sid \in {"S1", "S2"} :
              pctx.sections.v[sid].summary
                = summarize_section(sid, pctx.sections.v[sid].predictions,
                                    pctx.sections.v[sid].reasoning)

\* C16 witness: four sections, the first with the short wave, the third and
\* fourth with the short wave too, rendered in two tiers
C16_Witness ==
    /\ FourSectionsFinalized
    /\ Len(DetailOfLastTwo) <= 3000
    /\ pctx.sections.v["S1"].summary = "S1: Yes; 4 items selected"
    /\ pctx.sections.v["S2"].summary = "S2: "
    /\ pctx.sections.v["S3"].predictions.k = << "Q1", "Q2" >>
    /\ context_string = DetailOfLastTwo

\* C16 as stated, without the size condition: sections 3 and 4 are rendered
\* in full detail after four sections, whatever their size
C16_LastTwoInDetailAlways ==
    FourSectionsFinalized => context_string = DetailOfLastTwo

\* the finalized section stored last
MostRecentSection ==
    CHOOSE sid \in DKeys(pctx.sections) :
        \A other \in DKeys(pctx.sections) :
            pctx.sections.v[other].timestamp <= pctx.sections.v[sid].timestamp

\* the single-tier rendering: every finalized section but `recent` as its
\* summary line, `recent` alone in full detail
SingleTierOf(recent) ==
    LET older == SelectSeq(pctx.sections.k, LAMBDA sid : sid # recent)
        older_summaries == [n \in 1..Len(older) |->
                               "- " \o pctx.sections.v[older[n]].summary]
    IN  JoinWith((IF older # <<>>
                  THEN << "[PREVIOUS SECTIONS]", JoinWith(older_summaries, "\n") >>
                  ELSE <<>>)
                 \o << "\n[CURRENT SECTION - Detail]",
                       format_section_detail(pctx.sections.v[recent]) >>,
                 "\n\n")

\* C17: when the two-tier rendering is longer than 3000 characters,
\* finalize_section returns the single-tier rendering: the most recent section
\* in full detail, every other finalized section as its summary line only
C17_SingleTierFallback ==
    (/\ ctx_op = "finalize"
     /\ DLen(pctx.sections) > 0
     /\ Len(TwoTierContext(pctx)) > 3000)
    => context_string = SingleTierOf(MostRecentSection)

\* C17 witness: S1 and S2 were finalized, then S1 was started again, given the
\* wave with long answers and finalized: the fallback shows S2 in detail and
\* the section finalized last as a summary line
C17_Witness ==
    /\ ctx_op = "finalize"
    /\ pctx.sections.k = << "S1", "S2" >>
    /\ MostRecentSection = "S1"
    /\ Len(TwoTierContext(pctx)) > 3000
    /\ context_string = SingleTierOf("S2")
    /\ context_string # SingleTierOf("S1")

\* C18: a decision record, once stored for a question id, is never changed by
\* a later operation on the context (answer, rationale, section id and
\* timestamp stay), and every answered question has exactly one record
C18_RecordsNeverChange ==
    /\ [](\A qid \in DKeys(pctx.predictions) :
             Cardinality({ n \in 1..Len(pctx.predictions.k) :
                             pctx.predictions.k[n] = qid }) = 1)
    /\ [][\A qid \in DKeys(pctx.predictions) :
             /\ qid \in DKeys(pctx'.predictions)
             /\ pctx'.predictions.v[qid] = pctx.predictions.v[qid]]_vars

\* C18 witness: Q1 was answered by the short wave and again by the wave with
\* long answers; its one record now holds the later answer and a timestamp
\* after that of Q2, which was stored after Q1's first record
C18_Witness ==
    /\ ctx_op = "add"
    /\ pctx.predictions.k = << "Q1", "Q2", "Q3" >>
    /\ pctx.predictions.v["Q1"].predicted_answer = StrAns(LongText)
    /\ pctx.predictions.v["Q1"].reasoning = LongReason
    /\ pctx.predictions.v["Q1"].timestamp > pctx.predictions.v["Q2"].timestamp

\* C19: add_section_predictions leaves the finalized sections and the context
\* string rendered from them as they were; they change only in a step of
\* finalize_section, and only the in-progress section's records and the
\* decision records change in a step of add_section_predictions
C19_AddLeavesRenderingAlone ==
    [][ctx_op' # "finalize" =>
          /\ pctx'.sections = pctx.sections
          /\ context_string' = context_string
          /\ build_context_string(pctx') = build_context_string(pctx)
          /\ ctx_op' = "add" =>
                pctx'.current_section_id = pctx.current_section_id]_vars

\* C19 witness: with S1 finalized and S2 in progress, a wave was added to S2:
\* S2 holds its decisions, the finalized sections and the rendering are those
\* of S1 alone
C19_Witness ==
    /\ ctx_op = "add"
    /\ pctx.current_section_id = "S2"
    /\ DLen(pctx.current_section_predictions) = 3
    /\ pctx.sections.k = << "S1" >>
    /\ DLen(pctx.sections.v["S1"].predictions) = 2
    /\ build_context_string(pctx) = context_string
    /\ context_string # ""

\* s is a tail of t
IsSuffix(s, t) ==
    /\ Len(s) <= Len(t)
    /\ SubSeq(t, Len(t) - Len(s) + 1, Len(t)) = s

\* C20: the prior-context text put into the retrieval query is a tail of the
\* rendered context, at most 500 characters long: of a context that is too
\* long the beginning is dropped, never the end
C20_QueryContextIsTail ==
    ctx_op = "query" =>
        /\ Len(query_context) <= 500
        /\ IsSuffix(query_context, context_string)

\* C20 witness: the query was built from a rendered context longer than 500
\* characters; it holds the first 500 characters and "...", not the tail
C20_Witness ==
    /\ ctx_op = "query"
    /\ Len(context_string) > 500
    /\ query_context = SubSeq(context_string, 1, 500) \o "..."
    /\ Len(query_context) = 503
    /\ ~ IsSuffix(query_context, context_string)
    /\ ~ IsSuffix(SubSeq(query_context, 1, 500), context_string)

\* C21: parse_sections fails with a MalformedGraph error when a non-header
\* question comes before the first section header of the questions array
C21_LeadingQuestionIsMalformedGraph ==
    (/\ call.op = "parse_sections"
     /\ call.questions_array # <<>>
     /\ call.questions_array[1].type # "section")
    => ret.raised = "MalformedGraph"

\* C21 witness: the array Q2, header SA, Q1 was parsed without an error into
\* the one section SA holding Q1; Q2 is in no section
C21_Witness ==
    /\ call.op = "parse_sections"
    /\ call.questions_array
         = << InputQ("Q2", FALSE, <<>>), HeaderQ("SA", "Alpha"),
              InputQ("Q1", TRUE, <<"Q2">>) >>
    /\ ret.raised = ""
    /\ ret.sections.k = << "SA" >>
    /\ ret.sections.v["SA"].questions = << InputQ("Q1", TRUE, <<"Q2">>) >>

\* the positions of the section headers of a questions array, in order
HeaderPositions(questions_array) ==
    SelectSeq([n \in 1..Len(questions_array) |-> n],
              LAMBDA n : questions_array[n].type = "section")

\* the items between the header at position p and the next header or the end
ItemsUnder(questions_array, p) ==
    LET later == { n \in (p + 1)..Len(questions_array) :
                     questions_array[n].type = "section" }
        stop == IF later = {} THEN Len(questions_array) + 1
                ELSE CHOOSE n \in later : \A m \in later : n <= m
    IN  SubSeq(questions_array, p + 1, stop - 1)

\* C22: for a questions array that starts with a section header,
\* parse_sections yields one section per header, in header order, each with
\* exactly the non-header items between its header and the next one (or the
\* end), in their order; no question is lost and none is in two sections
C22_SectionsPartitionTheArray ==
    (/\ call.op = "parse_sections"
     /\ call.questions_array # <<>>
     /\ call.questions_array[1].type = "section")
    => LET questions_array == call.questions_array
           headers == HeaderPositions(questions_array)
           secs == ret.sections
       IN  /\ ret.raised = ""
           /\ secs.k = [n \in 1..Len(headers) |-> questions_array[headers[n]].id]
           /\ \A n \in 1..Len(headers) :
                 LET sec == secs.v[questions_array[headers[n]].id]
                 IN  /\ sec.id = questions_array[headers[n]].id
                     /\ sec.title = questions_array[headers[n]].title
                     /\ sec.questions = ItemsUnder(questions_array, headers[n])
           /\ \A m \in 1..Len(questions_array) :
                 questions_array[m].type # "section" =>
                     Cardinality({ sid \in DKeys(secs) :
                                     questions_array[m] \in Range(secs.v[sid].questions) }) = 1

\* C22 witness: header SA, Q1, header SB, Q2 gives SA with Q1 and SB with Q2
C22_Witness ==
    /\ call.op = "parse_sections"
    /\ call.questions_array
         = << HeaderQ("SA", "Alpha"), InputQ("Q1", TRUE, <<"Q2">>),
              HeaderQ("SB", "Beta"), InputQ("Q2", FALSE, <<>>) >>
    /\ ret.sections.k = << "SA", "SB" >>
    /\ ret.sections.v["SA"].questions = << InputQ("Q1", TRUE, <<"Q2">>) >>
    /\ ret.sections.v["SB"].questions = << InputQ("Q2", FALSE, <<>>) >>

\* the ids that are the target of a reveal edge of the section: of a direct
\* list or of the list of any option
RevealTargets(questions) ==
    UNION { (IF questions[n].hasNext THEN Range(questions[n].next) ELSE {})
            \cup (IF questions[n].hasOptions
                  THEN UNION { IF questions[n].options[o].hasNext
                               THEN Range(questions[n].options[o].next)
                               ELSE {}
                               : o \in 1..Len(questions[n].options) }
                  ELSE {})
            : n \in 1..Len(questions) }

\* C23: find_root_questions returns exactly the questions of the section
\* whose id is the target of no reveal edge of the section (direct lists and
\* the lists of every option), in section order; no root is a target, and a
\* question that is both a target and a source is no root
C23_RootsAreTheNonTargets ==
    call.op = "find_root_questions" =>
        LET questions == call.questions
            ids == [n \in 1..Len(questions) |-> questions[n].id]
        IN  /\ ret = SelectSeq(ids, LAMBDA id : id \notin RevealTargets(questions))
            /\ Range(ret) \cap RevealTargets(questions) = {}
            /\ \A n \in 1..Len(questions) :
                  (questions[n].id \in RevealTargets(questions)
                   /\ HasNextAnywhere(questions[n]))
                  => questions[n].id \notin Range(ret)

\* C23 witness: in the diamond section D0 -> DX, DQ and DX -> DQ the only
\* root is D0; DX, a target and a source, is none
C23_Witness ==
    /\ call.op = "find_root_questions"
    /\ call.questions = SecDiamond
    /\ ret = << "D0" >>
    /\ "DX" \in RevealTargets(SecDiamond)
    /\ HasNextAnywhere(SecDiamond[2])

\* round(x / 10) for x >= 0, a half rounded to the even neighbour
RoundTenths(x) ==
    LET q == x \div 10
        r == x % 10
    IN  IF r < 5 THEN q
        ELSE IF r > 5 THEN q + 1
        ELSE IF q % 2 = 0 THEN q ELSE q + 1

\* C24: calculate_optimal_top_k(n, complexity) is
\* clamp(round(3 * n * multiplier), 5, 20), the multiplier being 0.8, 1.0 and
\* 1.5 for low, medium and high: the product is rounded, not truncated
C24_BudgetIsRoundedProduct ==
    (/\ call.op = "calculate_optimal_top_k"
     /\ call.complexity \in {"low", "medium", "high"})
    => ret = Max2(5, Min2(20, RoundTenths(3 * call.num_questions
                                            * MultiplierTenths(call.complexity))))

\* C24 witness: 4 questions of low complexity: 3 * 4 * 0.8 = 9.6 gives the
\* budget 9, the integer part, where rounding gives 10
C24_Witness ==
    /\ call.op = "calculate_optimal_top_k"
    /\ call.num_questions = 4
    /\ call.complexity = "low"
    /\ ret = 9
    /\ RoundTenths(3 * 4 * MultiplierTenths("low")) = 10

\* C25: for each complexity calculate_optimal_top_k does not decrease as n
\* grows over 1..50, and its result is always within 5..20
C25_BudgetMonotoneAndBounded ==
    call.op = "calculate_optimal_top_k" =>
        /\ ret \in 5..20
        /\ \A smaller \in 1..call.num_questions :
              calculate_optimal_top_k(smaller, call.complexity) <= ret
        /\ \A larger \in call.num_questions..MaxQuestions :
              ret <= calculate_optimal_top_k(larger, call.complexity)

\* C25 witness: 7 questions of low complexity get the budget 16, strictly
\* between the bounds, above that of 6 questions and below that of 8
C25_Witness ==
    /\ call.op = "calculate_optimal_top_k"
    /\ call.num_questions = 7
    /\ call.complexity = "low"
    /\ ret = 16
    /\ calculate_optimal_top_k(6, "low") = 14
    /\ calculate_optimal_top_k(8, "low") = 19

\* r is the list l with its duplicates removed, in the order of first sight
IsDedupOf(r, l) ==
    /\ Range(r) = Range(l)
    /\ Cardinality(Range(r)) = Len(r)
    /\ \A i, j \in 1..Len(r) :
          i < j =>
              (CHOOSE n \in 1..Len(l) : l[n] = r[i] /\ \A m \in 1..(n - 1) : l[m] # r[i])
              < (CHOOSE n \in 1..Len(l) : l[n] = r[j] /\ \A m \in 1..(n - 1) : l[m] # r[j])

\* the call resolved a question of this type that has options and no direct list
ResolvedChoice(type) ==
    /\ call.op = "resolve_next_questions"
    /\ call.question_id \in Ids(call.questions)
    /\ QuestionById(call.questions, call.question_id).type = type
    /\ QuestionById(call.questions, call.question_id).hasOptions
    /\ ~ QuestionById(call.questions, call.question_id).hasNext

\* C26: for a single-choice question and an answer that is a label (or a
\* {value: label} dict), resolve_next_questions returns the reveal list of the
\* first option with that label, in its order with duplicates removed; the
\* empty list when that option has no list or no option matches; an option
\* after the first match is not consulted
C26_SingleChoiceFirstMatch ==
    (ResolvedChoice("single") /\ call.answer.tag \in {"str", "dict"}) =>
        LET options == QuestionById(call.questions, call.question_id).options
            matching == { o \in 1..Len(options) : options[o].label = call.answer.s }
            first == CHOOSE o \in matching : \A other \in matching : o <= other
        IN  IF matching = {} THEN ret = <<>>
            ELSE IF ~ options[first].hasNext THEN ret = <<>>
            ELSE IsDedupOf(ret, options[first].next)

\* C26 witness: S1 answered "Yes": the first option's list T1, T2, T1 gives
\* T1, T2; the later option "Yes" with T3 adds nothing
C26_Witness ==
    /\ ResolvedChoice("single")
    /\ call.questions = SecResolver
    /\ call.question_id = "S1"
    /\ call.answer = StrAns("Yes")
    /\ ret = << "T1", "T2" >>
    /\ resolve_next(SecResolver, "S1", StrAns("No")) = <<>>

\* C27: for a question that carries a direct reveal list,
\* resolve_next_questions returns exactly that list, in first-seen order
\* without duplicates, whatever the answer; the lists of the options are
\* consulted only for a question without a direct list
C27_DirectListOnly ==
    (/\ call.op = "resolve_next_questions"
     /\ call.question_id \in Ids(call.questions)
     /\ QuestionById(call.questions, call.question_id).hasNext)
    => IsDedupOf(ret, QuestionById(call.questions, call.question_id).next)

\* C27 witness: B1 carries the direct list T1 and the option "Yes" with T2;
\* the answer "Yes" reveals T1 and T2, the answer "No" only T1
C27_Witness ==
    /\ call.op = "resolve_next_questions"
    /\ call.questions = SecResolver
    /\ call.question_id = "B1"
    /\ call.answer = StrAns("Yes")
    /\ QuestionById(SecResolver, "B1").next = << "T1" >>
    /\ ret = << "T1", "T2" >>
    /\ resolve_next(SecResolver, "B1", StrAns("No")) = << "T1" >>

\* the labels a multi-choice answer selects: a bare string is one label
SelectedLabels(answer) ==
    IF answer.tag = "str" THEN { answer.s } ELSE Range(answer.l)

\* C28: for a multi-choice question and an answer that is a label or a list
\* of labels, resolve_next_questions returns the union of the reveal lists of
\* every option whose label is selected, not of the first such option only,
\* and no id twice
C28_MultiChoiceUnion ==
    (ResolvedChoice("multi") /\ call.answer.tag \in {"str", "list"}) =>
        LET options == QuestionById(call.questions, call.question_id).options
            chosen == { o \in 1..Len(options) :
                          /\ options[o].label \in SelectedLabels(call.answer)
                          /\ options[o].hasNext }
        IN  /\ Range(ret) = UNION { Range(options[o].next) : o \in chosen }
            /\ Cardinality(Range(ret)) = Len(ret)

\* C28 witness: M1 answered with the labels b and a: the lists T1, T2 of a and
\* T2, T3 of b give T1, T2, T3; the bare string "b" gives T2, T3
C28_Witness ==
    /\ ResolvedChoice("multi")
    /\ call.questions = SecResolver
    /\ call.question_id = "M1"
    /\ call.answer = ListAns(<< "b", "a" >>)
    /\ ret = << "T1", "T2", "T3" >>
    /\ resolve_next(SecResolver, "M1", StrAns("b")) = << "T2", "T3" >>

\* C29: resolve_next_questions answers bad input with the empty list: a
\* question id that is not in the section, an answer to a single-choice
\* question that is neither a label nor a {value: label} dict, an answer to a
\* multi-choice question that is neither a label nor a list
C29_BadInputRevealsNothing ==
    /\ (call.op = "resolve_next_questions"
        /\ call.question_id \notin Ids(call.questions))
       => ret = <<>>
    /\ (ResolvedChoice("single") /\ call.answer.tag \notin {"str", "dict"})
       => ret = <<>>
    /\ (ResolvedChoice("multi") /\ call.answer.tag \notin {"str", "list"})
       => ret = <<>>

\* C29 witness: M1 answered with the dict {value: a}, whose label a is that
\* of an option with a list, reveals nothing; so do an id outside the
\* section and a list given to the single-choice S1
C29_Witness ==
    /\ ResolvedChoice("multi")
    /\ call.questions = SecResolver
    /\ call.question_id = "M1"
    /\ call.answer = DictAns("a")
    /\ ret = <<>>
    /\ resolve_next(SecResolver, "M1", StrAns("a")) = << "T1", "T2" >>
    /\ resolve_next(SecResolver, UnknownQuestion, StrAns("Yes")) = <<>>
    /\ resolve_next(SecResolver, "S1", ListAns(<< "Yes" >>)) = <<>>

\* C30: process_wave returns the union of resolve_next_questions over the
\* entries of the prediction map, no id twice (a target revealed by several
\* questions is there once), and the same set for every order of the entries
C30_WaveUnionOrderFree ==
    call.op = "process_wave" =>
        LET wave_predictions == call.wave_predictions
        IN  /\ Range(ret)
                 = UNION { Range(resolve_next(call.questions, qid,
                                              wave_predictions.v[qid]))
                           : qid \in DKeys(wave_predictions) }
            /\ Cardinality(Range(ret)) = Len(ret)
            /\ \A order \in SetOrders(DKeys(wave_predictions)) :
                  process_wave(call.questions,
                               [k |-> order, v |-> wave_predictions.v])
                    = Range(ret)

\* C30 witness: the map B1: Yes, S1: Yes, M1: b in this order: B1 and S1 both
\* reveal T1 and T2, M1 reveals T2 and T3; the result holds T1, T2, T3 once
\* each
C30_Witness ==
    /\ call.op = "process_wave"
    /\ call.wave_predictions.k = << "B1", "S1", "M1" >>
    /\ call.wave_predictions.v["M1"] = StrAns("b")
    /\ call.wave_predictions.v["S1"] = StrAns("Yes")
    /\ Len(ret) = 3
    /\ Range(ret) = { "T1", "T2", "T3" }
    /\ ret[1] = "T3"

\* the reveal edges of a section: the pairs (question id, id it can reveal)
RevealEdges(questions) ==
    LET dependency_tree == build_dependency_tree(questions)
    IN  UNION { { << qid, next_qid >> : next_qid \in Range(dependency_tree.v[qid]) }
                : qid \in DKeys(dependency_tree) }

\* the ids one edge away from an id of S
Successors(edges, S) == { e[2] : e \in { f \in edges : f[1] \in S } }

RECURSIVE ReachableFrom(_, _)
\* the ids of S and every id a path leads to from them
ReachableFrom(edges, S) ==
    LET wider == S \cup Successors(edges, S)
    IN  IF wider = S THEN S ELSE ReachableFrom(edges, wider)

\* the ids that lie on a directed cycle of the section's reveal graph
IdsOnCycle(questions) ==
    LET edges == RevealEdges(questions)
    IN  { qid \in Ids(questions) :
            qid \in ReachableFrom(edges, Successors(edges, {qid})) }

\* S is the set of ids of one directed cycle of the graph
IsCycle(edges, S) ==
    /\ S # {}
    /\ \E l \in SetOrders(S) :
         /\ \A n \in 1..(Len(l) - 1) : << l[n], l[n + 1] >> \in edges
         /\ << l[Len(l)], l[1] >> \in edges

\* C31: the ids validate_section_structure names in its errors all lie on a
\* directed cycle of the section's reveal graph, and when the graph has a
\* cycle the errors name every id of at least one cycle
C31_ReportsTheCycle ==
    call.op = "validate_section_structure" =>
        LET reported == Range(ret.errors)
            edges == RevealEdges(call.questions)
        IN  /\ reported \subseteq IdsOnCycle(call.questions)
            /\ IdsOnCycle(call.questions) # {} =>
                  \E S \in SUBSET Ids(call.questions) :
                      IsCycle(edges, S) /\ S \subseteq reported

\* C31 witness: the section C0 -> CA -> CB -> CA was validated; the one error
\* names C0, which is on no cycle, and neither CA nor CB
C31_Witness ==
    /\ call.op = "validate_section_structure"
    /\ call.questions = SecCycle
    /\ IdsOnCycle(SecCycle) = {"CA", "CB"}
    /\ ret.errors = << "C0" >>

RECURSIVE ExtendPaths(_, _)
\* the paths of P and every longer simple path that starts with one of them
ExtendPaths(edges, P) ==
    LET more == UNION { { Append(p, e[2])
                          : e \in { f \in edges : f[1] = p[Len(p)]
                                                  /\ f[2] \notin Range(p) } }
                        : p \in P }
    IN  IF more = {} THEN P ELSE P \cup ExtendPaths(edges, more)

\* the simple paths of the section's reveal graph that start at a question:
\* lists of different ids joined by reveal edges
SimplePaths(questions) ==
    ExtendPaths(RevealEdges(questions), { << qid >> : qid \in Ids(questions) })

\* C32: get_max_wave_depth returns the number of ids on the longest simple
\* path of the section's reveal graph, a path being counted with its last
\* id also when that id is a reveal target that is no question of the
\* section; it returns 0 for the empty section, and it returns (a value of
\* at most the number of ids of the graph) when the graph has cycles
C32_DepthIsLongestSimplePath ==
    call.op = "get_max_wave_depth" =>
        /\ ret = MaxOver({ Len(p) : p \in SimplePaths(call.questions) })
        /\ call.questions = <<>> => ret = 0
        /\ ret <= Cardinality(Ids(call.questions)
                              \cup ReferencedIds(call.questions))

\* C32 witness: the depth of a section that has a cycle and an edge to an id
\* outside the section was computed, and the longest path has 3 ids
C32_Witness ==
    /\ call.op = "get_max_wave_depth"
    /\ IdsOnCycle(call.questions) # {}
    /\ \E e \in RevealEdges(call.questions) : e[2] \notin Ids(call.questions)
    /\ ret = 3

\* C32 as stated: get_max_wave_depth returns the number of questions of the
\* section on the longest simple path
C32_DepthCountsQuestions ==
    call.op = "get_max_wave_depth" =>
        ret = MaxOver({ Cardinality(Range(p) \cap Ids(call.questions))
                        : p \in SimplePaths(call.questions) })

\* the reveal edges of a section that lead to an id the section does not hold
OrphanEdges(questions) ==
    { e \in RevealEdges(questions) : e[2] \notin Ids(questions) }

\* C39: validate_section_structure returns valid = false exactly when the
\* section's reveal graph has a directed cycle, a question that reveals
\* itself included; the edges to ids the section does not hold are the
\* warnings, one per edge, and a section with such edges and no cycle is valid
C39_InvalidIffCycle ==
    call.op = "validate_section_structure" =>
        /\ ret.valid = (IdsOnCycle(call.questions) = {})
        /\ (\E e \in RevealEdges(call.questions) : e[1] = e[2]) => ~ret.valid
        /\ Range(ret.warnings) = OrphanEdges(call.questions)
        /\ Len(ret.warnings) = Cardinality(OrphanEdges(call.questions))

\* C39 witness: a section with an edge to an id it does not hold and with no
\* cycle was validated: it is valid and carries a warning
C39_Witness ==
    /\ call.op = "validate_section_structure"
    /\ OrphanEdges(call.questions) # {}
    /\ IdsOnCycle(call.questions) = {}
    /\ ret.valid
    /\ Len(ret.warnings) > 0

\* C33: the waves_executed a section run returns is the number of
\* batch-prediction calls the run made, for a section without roots, for a
\* last wave that reveals only ids the section does not hold, and for a loop
\* that stops at the ceiling as for every other section
C33_WavesExecutedCountsCalls ==
    spc = "returned" => section_result.waves_executed = PredictionCalls

\* C33 witness: the run of the section without root questions returned
\* waves_executed = 1 and made no batch-prediction call
C33_Witness ==
    /\ spc = "returned"
    /\ section_id = "SEC_NOROOT"
    /\ root_questions = <<>>
    /\ PredictionCalls = 0
    /\ section_result.waves_executed = 1

\* the ids a question can reveal under some answer
RevealableBy(question) ==
    (IF question.hasNext THEN Range(question.next) ELSE {})
    \cup (IF question.hasOptions THEN OptionTargets(question.options) ELSE {})

\* C34: the predictions a section run returns hold only ids that were in the
\* pending batch of one of its batch-prediction calls, and every id of a
\* batch after the first is a reveal target of a question of the batch
\* before it
C34_OnlyPendingIdsCount ==
    /\ spc = "returned" =>
          DKeys(section_result.predictions)
              \subseteq UNION { BatchIds(n) : n \in 1..PredictionCalls }
    /\ \A n \in 2..PredictionCalls :
          BatchIds(n) \subseteq
              UNION { RevealableBy(q)
                      : q \in { r \in Range(all_section_questions)
                                  : r.id \in BatchIds(n - 1) } }

\* C34 witness: the run of the end-to-end section returned a prediction for
\* X1, which the collaborator answered unasked and which was in no batch
C34_Witness ==
    /\ spc = "returned"
    /\ section_id = "SEC_E2E"
    /\ extras_used = 1
    /\ "X1" \in DKeys(section_result.predictions)
    /\ \A n \in 1..PredictionCalls : "X1" \notin BatchIds(n)

\* C35: a run that returns with status 'cancelled' left its loop before it
\* entered at least one of its sections; a run that entered every section
\* returns 'completed', whenever the cancel signal arrived
C35_CancelledOnlyIfSectionSkipped ==
    (qpc = "done" /\ run_result.returned) =>
        /\ run_result.status = "cancelled" => entered < Len(sections)
        /\ (entered = Len(sections) /\ Len(sections) > 0) =>
              run_result.status = "completed"

\* C35 witness: the cancel signal arrived after the last section had been
\* entered; every section was processed and the run returned 'cancelled'
C35_Witness ==
    /\ qpc = "done"
    /\ run_result.returned
    /\ Len(sections) > 0
    /\ entered = Len(sections)
    /\ cancel_mark.set
    /\ cancel_mark.entered = Len(sections)
    /\ run_result.sections_processed = Len(sections)
    /\ run_result.status = "cancelled"

\* C36: when a run has returned, the questionnaire status its one successful
\* call of the result sink stored is the status the run returned
C36_PersistedStatusIsFinalStatus ==
    (qpc = "done" /\ run_result.returned) =>
        \A n \in 1..Len(sink_calls) :
            sink_calls[n].ok =>
                sink_calls[n].questionnaire_status = run_result.status

\* C36 witness: a run of two sections was cancelled before it entered its
\* second section; it returned 'cancelled' and the sink stored 'completed'
C36_Witness ==
    /\ qpc = "done"
    /\ run_result.returned
    /\ Len(sections) = 2
    /\ entered = 1
    /\ run_result.status = "cancelled"
    /\ Len(sink_calls) = 1
    /\ sink_calls[1].ok
    /\ sink_calls[1].questionnaire_status = "completed"

\* the child runs whose end the parent run has handled, in its accumulate
\* step or in its except branch
HandledChildren ==
    IF qpc = "child" THEN Len(child_log) - 1 ELSE Len(child_log)

\* C37: at every point of a run sections_completed lies between 0 and
\* total_sections and is the number of child runs whose end (return or
\* exception) the run has handled; a run that left its loop without having
\* been cancelled has sections_completed = total_sections, the number of its
\* sections; and no step lowers sections_completed or raises it by more
\* than one
C37_SectionsCompletedCounts ==
    /\ [](/\ progress.sections_completed >= 0
          /\ progress.sections_completed <= progress.total_sections
          /\ progress.sections_completed = HandledChildren
          /\ (qpc \in {"save", "done"} /\ ~cancelled) =>
                /\ progress.sections_completed = progress.total_sections
                /\ progress.total_sections = Len(sections))
    /\ [][progress'.sections_completed \in
             { progress.sections_completed, progress.sections_completed + 1 }]_vars

\* C37 witness: a run of two sections that was never cancelled has returned;
\* one child run failed and one returned, and sections_completed is 2
C37_Witness ==
    /\ qpc = "done"
    /\ ~cancelled
    /\ Len(sections) = 2
    /\ \E k \in 1..2 : child_log[k].outcome = "failed"
    /\ \E k \in 1..2 : child_log[k].outcome = "returned"
    /\ progress.sections_completed = 2
    /\ run_result.sections_processed = 2

\* C38: when a section run has returned, the section's reveal graph has no
\* cycle, no edge to an id the section does not hold and a max wave depth of
\* at most 5, and the collaborator answered exactly the pending ids, then
\* waves_executed is at most get_max_wave_depth of the section
C38_WavesWithinDepth ==
    ( /\ spc = "returned"
      /\ ExactAnswers
      /\ IdsOnCycle(all_section_questions) = {}
      /\ OrphanEdges(all_section_questions) = {}
      /\ get_max_wave_depth(all_section_questions) <= max_waves )
    => section_result.waves_executed <= get_max_wave_depth(all_section_questions)

\* C38 witness: the run of the section without questions returned
\* waves_executed = 1; the max wave depth of the section is 0
C38_Witness ==
    /\ spc = "returned"
    /\ section_id = "SEC_EMPTY"
    /\ all_section_questions = <<>>
    /\ ExactAnswers
    /\ get_max_wave_depth(all_section_questions) = 0
    /\ section_result.waves_executed = 1

\* s occurs in t as a run of consecutive characters
OccursIn(s, t) ==
    \E i \in 1..(Len(t) - Len(s) + 1) : SubSeq(t, i, i + Len(s) - 1) = s

\* C40: the string finalize_section returns holds the full detail (the
\* section line and one line per decision) of the section finalized last,
\* whether or not that section id had been finalized before
C40_LastFinalizedInDetail ==
    (ctx_op = "finalize" /\ DLen(pctx.sections) > 0) =>
        OccursIn(format_section_detail(pctx.sections.v[MostRecentSection]),
                 context_string)

\* C40 witness: S1, S2 and S3 were finalized, then S1 was started again,
\* given a decision and finalized; the returned string is the two-tier
\* rendering, with S2 and S3 in detail and S1 as a summary line
C40_Witness ==
    /\ ctx_op = "finalize"
    /\ pctx.sections.k = << "S1", "S2", "S3" >>
    /\ MostRecentSection = "S1"
    /\ DLen(pctx.sections.v["S1"].predictions) >= 1
    /\ context_string = TwoTierContext(pctx)
    /\ OccursIn(format_section_detail(pctx.sections.v["S3"]), context_string)
    /\ ~OccursIn(format_section_detail(pctx.sections.v["S1"]), context_string)

====
